---- MODULE Spec2Model ----
(***************************************************************************)
(* State-machine model of the WiFi provisioning and connection-lifecycle   *)
(* component (components/wifi_setup/wifi_setup.c) together with the setup  *)
(* password derivation (components/pw_generator/pw_generator.c).           *)
(*                                                                         *)
(* Execution contexts: the caller's task (public API), the HTTP server     *)
(* task (GET / and POST /save handlers), the event-loop task               *)
(* (wifi_event_handler), the timeout task and the background connect       *)
(* tasks.  A handler that cannot be observed half-way is one action; the   *)
(* connect task and the failure path of the event handler are split at     *)
(* the places where other tasks can run in between.                        *)
(***************************************************************************)
EXTENDS Integers, Sequences, FiniteSets, TLC

VARIABLES
    current_state,        \* wifi_setup_state_t current_state
    server,               \* httpd_handle_t server # NULL
    ap_netif,             \* ap_netif # NULL
    sta_netif,            \* sta_netif # NULL
    setup_callback,       \* setup_callback # NULL
    wifi_retry_num,       \* int wifi_retry_num
    stay_connected_flag,  \* bool stay_connected_flag
    current_csrf_token,   \* uint32_t current_csrf_token
    timeout_task_handle,  \* "null", "task" (a live task) or "dangling" (a deleted task)
    last_save_attempt,    \* uint32_t last_save_attempt (ms)
    save_attempt_count,   \* int save_attempt_count
    mac,                  \* the last four bytes of the factory MAC address
    nvs,                  \* the "wifi_setup" namespace: keys ssid and password
    wifi,                 \* Wi-Fi driver: "off", "ap" or "sta" (started in that mode)
    handlers,             \* wifi_event_handler registered with the event loop
    link,                 \* station link: "none", "start_pending", "trying", "up", "down"
    ttask,                \* the timeout task: "none", or asleep for "portal" / "connect"
    ctasks,               \* wifi_connect_task instances, counted by position
    evtask,               \* event-loop task: idle, or in the vTaskDelay of line 206
                          \* with the callbacks the handler has delivered so far
    now,                  \* xTaskGetTickCount() * portTICK_PERIOD_MS
    last,                 \* history: the last operation, what it saw and what it answered
    attempts,             \* history: reconnect attempts since the last connect() == ESP_OK
    posts,                \* history: POST /save requests handled since boot
    window_start,         \* history: the time of the POST that opened the 60 s window
                          \* now running, counted as a fixed window; -1 before any
    app,                  \* the main task: "caller" (any caller of the API), or its
                          \* position in app_main
    evq,                  \* events posted to the default event loop and not yet
                          \* dispatched to wifi_event_handler (SpecEvents only)
    th,                   \* timeout_task_handle, statement by statement: 0 (NULL) or
                          \* the number of the task it names
    timers,               \* the timeout tasks ever created, each with its position
    armer,                \* the context that arms and cancels: its position in
                          \* start_timeout_task / stop_timeout_task
    thist                 \* history: tasks created, tasks cancelled, actions run

vars == <<current_state, server, ap_netif, sta_netif, setup_callback,
          wifi_retry_num, stay_connected_flag, current_csrf_token,
          timeout_task_handle, last_save_attempt, save_attempt_count, mac, nvs,
          wifi, handlers, link, ttask, ctasks, evtask, now, last, attempts, posts,
          window_start, app, evq, th, timers, armer, thist>>

\* The timeout mechanism seen statement by statement (used by SpecTimer; the
\* other specifications take start_timeout_task, stop_timeout_task and
\* timeout_task as single steps and leave these alone).
timervars == <<th, timers, armer, thist>>

(***************************************************************************)
(* Program constants                                                       *)
(***************************************************************************)
MAX_SAVE_ATTEMPTS == 5
RATE_LIMIT_WINDOW_MS == 60000
PORTAL_TIMEOUT_MS == 300000
CONNECT_TIMEOUT_MS == 30000
WIFI_SSID_MAX_LEN == 32
WIFI_PASSWORD_MAX_LEN == 64
SETUP_PASSWORD_LEN == 8
MAX_RETRY == 3
MAIN_DELAY_MS == 5000        \* vTaskDelay before enter_deep_sleep (main.c)
SLEEP_DELAY_MS == 100        \* vTaskDelay before esp_deep_sleep_start
FIELD_BUF_LEN == 16
HALF == 65536          \* a uint32_t is <<high 16 bits, low 16 bits>>

States == {"IDLE", "PORTAL_RUNNING", "CONNECTING", "CONNECTED", "FAILED", "DISABLED"}

(***************************************************************************)
(* Bounds of the model                                                     *)
(***************************************************************************)
MaxToken == 1          \* esp_random() draws from 0..MaxToken
MaxConnTasks == 1      \* connect tasks alive at once
MaxPosts == 1          \* POSTs per boot while the whole lifecycle is explored
MaxAttempts == 7       \* POSTs per boot while a portal session is explored
MaxNow == 60000        \* the clock stops here
MaxCount == 4          \* the history counter of reconnect attempts saturates here
MaxStorePosts == 2       \* POST /save requests while the store is explored
MaxSessionPosts == 2     \* POST /save requests in a session with several submissions
MaxSessionTasks == 2     \* connect tasks alive in such a session
MaxQueued == 2           \* events waiting in the event loop's queue
MaxTimers == 2         \* timeout tasks created per boot while the timer is explored

Tokens == {<<0, t>> : t \in 0..MaxToken}
TimerIds == 1..MaxTimers
\* a task that was never created
NoTimer == [pc |-> "free", kind |-> "none", path |-> "none", reg |-> 0, woke |-> FALSE]
TickSteps == {RATE_LIMIT_WINDOW_MS \div 2}

(***************************************************************************)
(* The globals the lifecycle functions read and write, as one record, so   *)
(* that a C function is an operator from record to record.  Transient      *)
(* fields: died (the calling task deleted itself and runs no further),     *)
(* crashed (abort or crash), cb (callbacks delivered, in order), ret (the  *)
(* esp_err_t returned).                                                    *)
(***************************************************************************)
Globals ==
    [current_state |-> current_state, server |-> server, ap_netif |-> ap_netif,
     sta_netif |-> sta_netif, setup_callback |-> setup_callback,
     wifi_retry_num |-> wifi_retry_num, stay_connected_flag |-> stay_connected_flag,
     timeout_task_handle |-> timeout_task_handle, ttask |-> ttask, wifi |-> wifi,
     handlers |-> handlers, link |-> link,
     died |-> FALSE, crashed |-> FALSE, cb |-> <<>>, ret |-> "ESP_OK"]

\* A task that deleted itself, or a firmware that aborted, runs nothing more.
Stopped(g) == g.died \/ g.crashed

\* if (setup_callback) setup_callback(ok, ...)
InvokeCallback(g, ok) ==
    IF g.setup_callback THEN [g EXCEPT !.cb = Append(@, ok)] ELSE g

\* Variant: vTaskDelete() of the running task returns to it, as a deletion of
\* any other task does.
DeleteTimeoutTaskReturns(g, self, ub) ==
    IF g.timeout_task_handle = "task" THEN [g EXCEPT !.ttask = "none"]
    ELSE IF ub = "crash" THEN [g EXCEPT !.crashed = TRUE] ELSE g

\* vTaskDelete(timeout_task_handle) for a non-NULL handle, called by task `self`.
\* Deleting the running task ends it at once, before it can clear the handle;
\* deleting an already deleted task is undefined: `ub` is what the build does.
DeleteTimeoutTask(g, self, ub) ==
    IF g.timeout_task_handle = "task"
    THEN IF self = "timeout"
         THEN [g EXCEPT !.died = TRUE, !.ttask = "none",
                        !.timeout_task_handle = "dangling"]
         ELSE [g EXCEPT !.ttask = "none"]
    ELSE IF ub = "crash" THEN [g EXCEPT !.crashed = TRUE] ELSE g

stop_timeout_task(g, self, ub) ==
    IF g.timeout_task_handle = "null" THEN g
    ELSE LET g1 == DeleteTimeoutTask(g, self, ub)
         IN  IF Stopped(g1) THEN g1
             ELSE [g1 EXCEPT !.timeout_task_handle = "null"]

start_timeout_task(g, kind, self, ub) ==
    LET g1 == IF g.timeout_task_handle = "null" THEN g
              ELSE LET d == DeleteTimeoutTask(g, self, ub)
                   IN  IF Stopped(d) THEN d
                       ELSE [d EXCEPT !.timeout_task_handle = "null"]
    IN  IF Stopped(g1) THEN g1
        ELSE [g1 EXCEPT !.ttask = kind, !.timeout_task_handle = "task"]

cleanup_wifi_resources(g, self, ub) ==
    LET g1 == stop_timeout_task(g, self, ub)
    IN  IF Stopped(g1) THEN g1
        ELSE IF g1.current_state # "DISABLED"
             THEN [g1 EXCEPT !.wifi = "off", !.link = "none", !.sta_netif = FALSE,
                             !.handlers = FALSE, !.current_state = "DISABLED"]
             ELSE g1

wifi_setup_stop_portal(g, self, ub) ==
    LET g1 == stop_timeout_task(g, self, ub)
    IN  IF Stopped(g1) THEN g1
        ELSE [g1 EXCEPT !.server = FALSE, !.wifi = "off", !.link = "none",
                        !.ap_netif = FALSE, !.current_state = "IDLE"]

\* Variant: disconnect() that releases the radio and leaves the timeout task alone.
DisconnectKeepsTimeout(g, self, ub) ==
    InvokeCallback(IF g.current_state # "DISABLED"
                   THEN [g EXCEPT !.wifi = "off", !.link = "none", !.sta_netif = FALSE,
                                  !.handlers = FALSE, !.current_state = "DISABLED"]
                   ELSE g,
                   FALSE)

wifi_setup_disconnect(g, self, ub) ==
    LET g1 == cleanup_wifi_resources(g, self, ub)
    IN  IF Stopped(g1) THEN g1 ELSE InvokeCallback(g1, FALSE)

\* The body of timeout_task after its vTaskDelay.
timeout_task(g, ub) ==
    LET g1 == IF g.current_state = "CONNECTED" /\ ~g.stay_connected_flag
              THEN LET d == wifi_setup_disconnect(g, "timeout", ub)
                   IN  IF Stopped(d) THEN d ELSE InvokeCallback(d, FALSE)
              ELSE IF g.current_state = "PORTAL_RUNNING"
              THEN LET p == wifi_setup_stop_portal(g, "timeout", ub)
                   IN  IF Stopped(p) THEN p
                       ELSE InvokeCallback([p EXCEPT !.current_state = "DISABLED"],
                                           FALSE)
              ELSE g
    IN  IF Stopped(g1) THEN g1
        ELSE [g1 EXCEPT !.timeout_task_handle = "null", !.ttask = "none"]

(***************************************************************************)
(* Credential store (NVS namespace "wifi_setup").  A C string is the       *)
(* sequence of its bytes, without the terminating NUL.                     *)
(***************************************************************************)
NoCredentials == [ssid |-> [has |-> FALSE, val |-> <<>>],
                  password |-> [has |-> FALSE, val |-> <<>>]]

StoreOf(ssid, password) == [ssid |-> [has |-> TRUE, val |-> ssid],
                            password |-> [has |-> TRUE, val |-> password]]

\* Variant: the answer taken from the store even when it cannot be opened.
HasCredentialsIgnoresOpen(store, open_ok) ==
    store.ssid.has /\ Len(store.ssid.val) + 1 > 1

\* nvs_get_str(..., NULL, &required_size) == ESP_OK && required_size > 1
wifi_setup_has_credentials(store, open_ok) ==
    open_ok /\ store.ssid.has /\ Len(store.ssid.val) + 1 > 1

\* Variant: the caller's buffers taken one byte shorter than they are.
GetCredentialsShortBuffers(store, open_ok) ==
    IF ~open_ok THEN [err |-> "ESP_FAIL", ssid |-> <<>>, password |-> <<>>]
    ELSE IF ~store.ssid.has
    THEN [err |-> "ESP_ERR_NVS_NOT_FOUND", ssid |-> <<>>, password |-> <<>>]
    ELSE IF Len(store.ssid.val) + 1 > WIFI_SSID_MAX_LEN - 1
    THEN [err |-> "ESP_ERR_NVS_INVALID_LENGTH", ssid |-> <<>>, password |-> <<>>]
    ELSE IF ~store.password.has
    THEN [err |-> "ESP_ERR_NVS_NOT_FOUND", ssid |-> store.ssid.val, password |-> <<>>]
    ELSE IF Len(store.password.val) + 1 > WIFI_PASSWORD_MAX_LEN - 1
    THEN [err |-> "ESP_ERR_NVS_INVALID_LENGTH", ssid |-> store.ssid.val,
          password |-> <<>>]
    ELSE [err |-> "ESP_OK", ssid |-> store.ssid.val, password |-> store.password.val]

wifi_setup_get_credentials(store, open_ok) ==
    IF ~open_ok THEN [err |-> "ESP_FAIL", ssid |-> <<>>, password |-> <<>>]
    ELSE IF ~store.ssid.has
    THEN [err |-> "ESP_ERR_NVS_NOT_FOUND", ssid |-> <<>>, password |-> <<>>]
    ELSE IF Len(store.ssid.val) + 1 > WIFI_SSID_MAX_LEN
    THEN [err |-> "ESP_ERR_NVS_INVALID_LENGTH", ssid |-> <<>>, password |-> <<>>]
    ELSE IF ~store.password.has
    THEN [err |-> "ESP_ERR_NVS_NOT_FOUND", ssid |-> store.ssid.val, password |-> <<>>]
    ELSE IF Len(store.password.val) + 1 > WIFI_PASSWORD_MAX_LEN
    THEN [err |-> "ESP_ERR_NVS_INVALID_LENGTH", ssid |-> store.ssid.val,
          password |-> <<>>]
    ELSE [err |-> "ESP_OK", ssid |-> store.ssid.val, password |-> store.password.val]

wifi_setup_clear_credentials(store, open_ok) ==
    IF open_ok THEN NoCredentials ELSE store

(***************************************************************************)
(* Setup password: "%02X%02X%02X%02X" of mac[2..5].                        *)
(***************************************************************************)
HexUpper(n) == IF n < 10 THEN 48 + n ELSE 55 + n

generate_setup_password(m) ==
    <<HexUpper(m[1] \div 16), HexUpper(m[1] % 16), HexUpper(m[2] \div 16),
      HexUpper(m[2] % 16), HexUpper(m[3] \div 16), HexUpper(m[3] % 16),
      HexUpper(m[4] \div 16), HexUpper(m[4] % 16)>>

setup_password == generate_setup_password(mac)

(***************************************************************************)
(* Public API on the globals record                                        *)
(***************************************************************************)
\* esp_netif_get_default_netif(): a network interface that is up
DefaultNetif(g) ==
    (g.ap_netif /\ g.wifi = "ap") \/ (g.sta_netif /\ g.link = "up")

\* Variant: start_portal() that starts the server before, and instead of,
\* arming the portal timeout.
StartPortalNoTimeout(g, drv_ok, httpd_ok, ub) ==
    LET g1 == [g EXCEPT !.setup_callback = TRUE,
                        !.current_state = "PORTAL_RUNNING",
                        !.stay_connected_flag = FALSE]
    IN  IF ~drv_ok THEN [g1 EXCEPT !.crashed = TRUE]
        ELSE [g1 EXCEPT !.ap_netif = TRUE, !.handlers = TRUE, !.wifi = "ap",
                        !.link = "none", !.server = httpd_ok,
                        !.ret = IF httpd_ok THEN "ESP_OK" ELSE "ESP_FAIL"]

\* drv_ok: every ESP_ERROR_CHECK'ed driver call returns ESP_OK (else abort()).
wifi_setup_start_portal(g, drv_ok, httpd_ok, ub) ==
    LET g1 == [g EXCEPT !.setup_callback = TRUE,
                        !.current_state = "PORTAL_RUNNING",
                        !.stay_connected_flag = FALSE]
    IN  IF ~drv_ok THEN [g1 EXCEPT !.crashed = TRUE]
        ELSE LET g2 == [g1 EXCEPT !.ap_netif = TRUE, !.handlers = TRUE,
                                  !.wifi = "ap", !.link = "none"]
                 g3 == start_timeout_task(g2, "portal", "caller", ub)
             IN  IF Stopped(g3) THEN g3
                 ELSE IF httpd_ok THEN [g3 EXCEPT !.server = TRUE, !.ret = "ESP_OK"]
                 ELSE [g3 EXCEPT !.ret = "ESP_FAIL"]

\* Variant: connect() that records the callback and the stay-connected flag
\* before it checks the state and the store.
ConnectRegistersFirst(g, store, has_ok, get_ok, callback, stay_connected, drv_ok) ==
    LET g0 == [g EXCEPT !.setup_callback = callback,
                        !.stay_connected_flag = stay_connected]
    IN  IF g.current_state = "CONNECTED"
        THEN [g0 EXCEPT !.ret = "ESP_ERR_INVALID_STATE"]
        ELSE IF ~(has_ok /\ store.ssid.has /\ Len(store.ssid.val) + 1 > 1)
        THEN [g0 EXCEPT !.ret = "ESP_ERR_NOT_FOUND"]
        ELSE [g0 EXCEPT !.current_state = "CONNECTING", !.wifi_retry_num = 0,
                        !.handlers = TRUE, !.sta_netif = TRUE, !.wifi = "sta",
                        !.link = IF g.wifi = "sta" THEN @ ELSE "start_pending",
                        !.ret = IF get_ok /\ drv_ok THEN "ESP_OK" ELSE "ESP_FAIL"]

wifi_setup_connect(g, store, has_ok, get_ok, callback, stay_connected, drv_ok) ==
    IF g.current_state = "CONNECTED" THEN [g EXCEPT !.ret = "ESP_ERR_INVALID_STATE"]
    ELSE IF ~wifi_setup_has_credentials(store, has_ok)
    THEN [g EXCEPT !.ret = "ESP_ERR_NOT_FOUND"]
    ELSE LET c == wifi_setup_get_credentials(store, get_ok)
         IN  IF c.err # "ESP_OK" THEN [g EXCEPT !.ret = c.err]
             ELSE LET g1 == [g EXCEPT !.setup_callback = callback,
                                      !.stay_connected_flag = stay_connected,
                                      !.current_state = "CONNECTING",
                                      !.wifi_retry_num = 0]
                  IN  IF ~drv_ok THEN [g1 EXCEPT !.crashed = TRUE]
                      ELSE [g1 EXCEPT
                              !.handlers = IF DefaultNetif(g1) THEN @ ELSE TRUE,
                              !.sta_netif = TRUE,
                              !.wifi = "sta",
                              !.link = IF g1.wifi = "sta" THEN @ ELSE "start_pending",
                              !.ret = "ESP_OK"]

\* Variant: the GOT_IP branch arms the grace timeout whatever the flag says.
GotIpAlwaysArms(g, event, ub) ==
    IF event = "STA_START" THEN [g EXCEPT !.link = "trying"]
    ELSE IF event = "STA_DISCONNECTED"
    THEN IF g.wifi_retry_num < MAX_RETRY /\ g.current_state = "CONNECTING"
         THEN [g EXCEPT !.link = "trying", !.wifi_retry_num = @ + 1]
         ELSE [g EXCEPT !.link = "down", !.current_state = "FAILED"]
    ELSE LET g1 == [g EXCEPT !.link = "up", !.wifi_retry_num = 0,
                             !.current_state = "CONNECTED"]
             g2 == start_timeout_task(g1, "connect", "event", ub)
         IN  IF Stopped(g2) THEN g2 ELSE InvokeCallback(g2, TRUE)

\* wifi_event_handler; the STA_DISCONNECTED failure branch up to its vTaskDelay.
wifi_event_handler(g, event, ub) ==
    IF event = "STA_START" THEN [g EXCEPT !.link = "trying"]
    ELSE IF event = "STA_DISCONNECTED"
    THEN IF g.wifi_retry_num < MAX_RETRY /\ g.current_state = "CONNECTING"
         THEN [g EXCEPT !.link = "trying", !.wifi_retry_num = @ + 1]
         ELSE [g EXCEPT !.link = "down", !.current_state = "FAILED"]
    ELSE LET g1 == [g EXCEPT !.link = "up", !.wifi_retry_num = 0,
                             !.current_state = "CONNECTED"]
             g2 == IF ~g1.stay_connected_flag
                   THEN start_timeout_task(g1, "connect", "event", ub)
                   ELSE g1
         IN  IF Stopped(g2) THEN g2 ELSE InvokeCallback(g2, TRUE)

(***************************************************************************)
(* C string functions on byte sequences (indices from 1; 0 is "NULL")      *)
(***************************************************************************)
MinOf(S) == CHOOSE x \in S : \A y \in S : x <= y

\* The C string held by a buffer: the bytes before the first NUL.
CStr(s) ==
    LET z == {i \in 1..Len(s) : s[i] = 0}
    IN  IF z = {} THEN s ELSE SubSeq(s, 1, MinOf(z) - 1)

\* strstr(buf + from - 1, pat): where the first occurrence at or after `from` starts
strstr(buf, from, pat) ==
    LET at == {i \in from..(Len(buf) - Len(pat) + 1) :
                  \A k \in 1..Len(pat) : buf[i + k - 1] = pat[k]}
    IN  IF at = {} THEN 0 ELSE MinOf(at)

\* strchr(buf + from - 1, ch)
strchr(buf, from, ch) ==
    LET at == {i \in from..Len(buf) : buf[i] = ch}
    IN  IF at = {} THEN 0 ELSE MinOf(at)

\* the hex digit value url_decode computes (0 for a byte that is no hex digit)
HexVal(c) ==
    IF c >= 48 /\ c <= 57 THEN c - 48
    ELSE IF c >= 65 /\ c <= 70 THEN c - 65 + 10
    ELSE IF c >= 97 /\ c <= 102 THEN c - 97 + 10
    ELSE 0

IsHexDigit(c) == (c >= 48 /\ c <= 57) \/ (c >= 65 /\ c <= 70) \/ (c >= 97 /\ c <= 102)

RECURSIVE DecodeFrom(_, _)
DecodeFrom(s, i) ==
    IF i > Len(s) THEN <<>>
    ELSE IF s[i] = 43 THEN <<32>> \o DecodeFrom(s, i + 1)
    ELSE IF s[i] = 37 /\ i + 2 <= Len(s)
    THEN <<(HexVal(s[i + 1]) * 16 + HexVal(s[i + 2])) % 256>> \o DecodeFrom(s, i + 3)
    ELSE <<s[i]>> \o DecodeFrom(s, i + 1)

\* url_decode(str), in place: '+' is a space, %XY the byte XY
url_decode(s) == CStr(DecodeFrom(s, 1))

ULONG_MAX == <<HALF - 1, HALF - 1>>

RECURSIVE HexDigits(_, _, _, _)
\* the value of the hex digits of s from i on; once it overflows 32 bits the
\* result is ULONG_MAX
HexDigits(s, i, acc, over) ==
    IF i > Len(s) \/ ~IsHexDigit(s[i]) THEN (IF over THEN ULONG_MAX ELSE acc)
    ELSE LET lo == acc[2] * 16 + HexVal(s[i])
             hi == acc[1] * 16 + lo \div HALF
         IN  HexDigits(s, i + 1, <<hi % HALF, lo % HALF>>, over \/ hi >= HALF)

\* -v in 32-bit unsigned arithmetic
Negate32(v) ==
    IF v[2] = 0 THEN <<(HALF - v[1]) % HALF, 0>> ELSE <<HALF - 1 - v[1], HALF - v[2]>>

RECURSIVE SkipSpace(_, _)
SkipSpace(s, i) ==
    IF i <= Len(s) /\ (s[i] = 32 \/ (s[i] >= 9 /\ s[i] <= 13))
    THEN SkipSpace(s, i + 1) ELSE i

\* strtoul(str, NULL, 16) with a 32-bit unsigned long
strtoul16(s) ==
    LET i0 == SkipSpace(s, 1)
        neg == i0 <= Len(s) /\ s[i0] = 45
        i1 == IF i0 <= Len(s) /\ (s[i0] = 45 \/ s[i0] = 43) THEN i0 + 1 ELSE i0
        i2 == IF i1 + 1 <= Len(s) /\ s[i1] = 48 /\ (s[i1 + 1] = 120 \/ s[i1 + 1] = 88)
              THEN i1 + 2 ELSE i1
        v == HexDigits(s, i2, <<0, 0>>, FALSE)
    IN  IF neg THEN Negate32(v) ELSE v

(***************************************************************************)
(* POST /save: the form fields, as save_post_handler extracts them          *)
(***************************************************************************)
KEY_SETUP_PWD == <<115, 101, 116, 117, 112, 95, 112, 119, 100, 61>>  \* "setup_pwd="
KEY_CSRF == <<99, 115, 114, 102, 61>>                               \* "csrf="
KEY_SSID == <<115, 115, 105, 100, 61>>                              \* "ssid="
KEY_PASSWORD == <<112, 97, 115, 115, 119, 111, 114, 100, 61>>      \* "password="
AMP == 38

\* Variant: the field copied whole, without the clamp to the buffer's size.
FieldValueNoClamp(buf, start, max) ==
    LET e == strchr(buf, start, AMP)
        len == IF e # 0 THEN e - start ELSE Len(buf) - start + 1
    IN  SubSeq(buf, start, start + len - 1)

\* len = end ? end - start : strlen(start); len = len > max ? max : len; strncpy
FieldValue(buf, start, max) ==
    LET e == strchr(buf, start, AMP)
        len == IF e # 0 THEN e - start ELSE Len(buf) - start + 1
        n == IF len > max THEN max ELSE len
    IN  SubSeq(buf, start, start + n - 1)

\* The form fields as save_post_handler extracts them from the received buffer
\* (lines 296-360): setup_pwd decoded, csrf as a number, ssid and password decoded.
FormFields(buf) ==
    LET p == strstr(buf, 1, KEY_SETUP_PWD)
        c == strstr(buf, 1, KEY_CSRF)
        s == strstr(buf, 1, KEY_SSID)
        w == strstr(buf, 1, KEY_PASSWORD)
        csrf_str == IF c # 0
                    THEN FieldValue(buf, c + Len(KEY_CSRF), FIELD_BUF_LEN - 1)
                    ELSE <<>>
    IN  [setup_pwd |-> IF p # 0
                       THEN url_decode(FieldValue(buf, p + Len(KEY_SETUP_PWD),
                                                  FIELD_BUF_LEN - 1))
                       ELSE <<>>,
         received_csrf |-> strtoul16(csrf_str),
         ssid_start |-> s,
         password_start |-> w,
         ssid |-> IF s # 0 /\ strchr(buf, s + Len(KEY_SSID), AMP) # 0
                  THEN url_decode(FieldValue(buf, s + Len(KEY_SSID),
                                             WIFI_SSID_MAX_LEN - 1))
                  ELSE <<>>,
         password |-> IF w # 0
                      THEN url_decode(FieldValue(buf, w + Len(KEY_PASSWORD),
                                                 WIFI_PASSWORD_MAX_LEN - 1))
                      ELSE <<>>]

RECV_BUF_LEN == 512

\* buf after httpd_req_recv(req, buf, MIN(content_len, sizeof(buf) - 1)):
\* ret bytes, read as a C string.
Received(body) ==
    [ret |-> IF Len(body) > RECV_BUF_LEN - 1 THEN RECV_BUF_LEN - 1 ELSE Len(body),
     fields |-> FormFields(CStr(IF Len(body) > RECV_BUF_LEN - 1
                                THEN SubSeq(body, 1, RECV_BUF_LEN - 1) ELSE body))]

\* Variant: an error response that still starts the connect task.
RejectAndConnect(code, text) ==
    [status |-> code, msg |-> text, ret |-> "ESP_FAIL", save |-> FALSE,
     spawn |-> TRUE, ssid |-> <<>>, password |-> <<>>]

\* The response and the effects of a request that ends at an error response.
Reject(code, text) ==
    [status |-> code, msg |-> text, ret |-> "ESP_FAIL", save |-> FALSE,
     spawn |-> FALSE, ssid |-> <<>>, password |-> <<>>]

\* Variant: the handler without its anti-forgery check.
ParseAndCheckNoCsrf(rx, pwd, token, fault) ==
    LET f == rx.fields
    IN  IF rx.ret <= 0 THEN Reject(400, "Invalid data")
        ELSE IF f.setup_pwd # pwd THEN Reject(403, "Invalid password")
        ELSE IF f.ssid_start = 0 \/ f.password_start = 0
        THEN Reject(400, "Missing data")
        ELSE IF Len(f.ssid) = 0 THEN Reject(400, "SSID required")
        ELSE IF fault = "nvs" THEN Reject(500, "Save failed")
        ELSE [status |-> 200, msg |-> "success",
              ret |-> IF fault = "malloc" THEN "ESP_FAIL" ELSE "ESP_OK",
              save |-> TRUE, spawn |-> fault # "malloc",
              ssid |-> f.ssid, password |-> f.password]

\* Variant: a request whose token reads as 0 is let through the anti-forgery check.
ParseAndCheckZeroToken(rx, pwd, token, fault) ==
    LET f == rx.fields
    IN  IF rx.ret <= 0 THEN Reject(400, "Invalid data")
        ELSE IF f.setup_pwd # pwd THEN Reject(403, "Invalid password")
        ELSE IF f.received_csrf # token /\ f.received_csrf # <<0, 0>>
        THEN Reject(403, "Invalid request")
        ELSE IF f.ssid_start = 0 \/ f.password_start = 0
        THEN Reject(400, "Missing data")
        ELSE IF Len(f.ssid) = 0 THEN Reject(400, "SSID required")
        ELSE IF fault = "nvs" THEN Reject(500, "Save failed")
        ELSE [status |-> 200, msg |-> "success",
              ret |-> IF fault = "malloc" THEN "ESP_FAIL" ELSE "ESP_OK",
              save |-> TRUE, spawn |-> fault # "malloc",
              ssid |-> f.ssid, password |-> f.password]

\* The handler's checks in their order, for a request the rate limiter let in.
\* fault: the call that fails, if any: "nvs" (nvs_open) or "malloc" (the copy
\* of the credentials for the connect task, after the success page was sent).
ParseAndCheck(rx, pwd, token, fault) ==
    LET f == rx.fields
    IN  IF rx.ret <= 0 THEN Reject(400, "Invalid data")
        ELSE IF f.setup_pwd # pwd THEN Reject(403, "Invalid password")
        ELSE IF f.received_csrf # token THEN Reject(403, "Invalid request")
        ELSE IF f.ssid_start = 0 \/ f.password_start = 0
        THEN Reject(400, "Missing data")
        ELSE IF Len(f.ssid) = 0 THEN Reject(400, "SSID required")
        ELSE IF fault = "nvs" THEN Reject(500, "Save failed")
        ELSE [status |-> 200, msg |-> "success",
              ret |-> IF fault = "malloc" THEN "ESP_FAIL" ELSE "ESP_OK",
              save |-> TRUE, spawn |-> fault # "malloc",
              ssid |-> f.ssid, password |-> f.password]

\* Variant: the limiter denies from the MAX_SAVE_ATTEMPTS-th attempt on.
RateLimitFromFifth(t, last_attempt, count) ==
    IF t - last_attempt < RATE_LIMIT_WINDOW_MS
    THEN IF count + 1 >= MAX_SAVE_ATTEMPTS
         THEN [allowed |-> FALSE, last_attempt |-> last_attempt, count |-> count + 1]
         ELSE [allowed |-> TRUE, last_attempt |-> t, count |-> count + 1]
    ELSE [allowed |-> TRUE, last_attempt |-> t, count |-> 1]

\* The rate limiter at the head of save_post_handler.  The tick clock does not
\* wrap within MaxNow, so the unsigned now - last_save_attempt is the difference.
RateLimit(t, last_attempt, count) ==
    IF t - last_attempt < RATE_LIMIT_WINDOW_MS
    THEN IF count + 1 > MAX_SAVE_ATTEMPTS
         THEN [allowed |-> FALSE, last_attempt |-> last_attempt, count |-> count + 1]
         ELSE [allowed |-> TRUE, last_attempt |-> t, count |-> count + 1]
    ELSE [allowed |-> TRUE, last_attempt |-> t, count |-> 1]

\* save_post_handler on the received request rx at tick time t
save_post_handler(rx, t, last_attempt, count, pwd, token, fault) ==
    LET r == RateLimit(t, last_attempt, count)
    IN  [answer |-> IF r.allowed THEN ParseAndCheck(rx, pwd, token, fault)
                    ELSE Reject(500, "Too many attempts"),
         last_attempt |-> r.last_attempt,
         count |-> r.count]

\* The calls that can fail while the handler serves rx: nvs_open and malloc are
\* reached only by a request that passed every check.
PostFaults(rx, t, last_attempt, count, pwd, token) ==
    IF save_post_handler(rx, t, last_attempt, count, pwd, token, "none").answer.save
    THEN {"none", "nvs", "malloc"} ELSE {"none"}

\* wifi_connect_task from its call of wifi_setup_connect on (lines 253-266)
wifi_connect_task_connect(g, store, has_ok, get_ok, drv_ok) ==
    LET g0 == [g EXCEPT !.stay_connected_flag = FALSE]
        g1 == wifi_setup_connect(g0, store, has_ok, get_ok, g0.setup_callback,
                                 FALSE, drv_ok)
    IN  IF Stopped(g1) THEN g1
        ELSE IF g1.ret # "ESP_OK" THEN InvokeCallback(g1, FALSE)
        ELSE g1

(***************************************************************************)
(* The HTTP client: a browser's form submission                             *)
(***************************************************************************)
HexLower(n) == IF n < 10 THEN 48 + n ELSE 87 + n

RECURSIVE HexText(_, _)
\* n as `digits` lower-case hex digits: how the form renders the token (%08x)
HexText(n, digits) ==
    IF digits = 0 THEN <<>>
    ELSE Append(HexText(n \div 16, digits - 1), HexLower(n % 16))

Unreserved(c) == (c >= 48 /\ c <= 57) \/ (c >= 65 /\ c <= 90) \/ (c >= 97 /\ c <= 122)
                 \/ c \in {45, 46, 95, 42}

RECURSIVE UrlEncode(_)
\* application/x-www-form-urlencoded, as a browser encodes a field
UrlEncode(v) ==
    IF Len(v) = 0 THEN <<>>
    ELSE (IF Unreserved(v[1]) THEN <<v[1]>>
          ELSE IF v[1] = 32 THEN <<43>>
          ELSE <<37, HexUpper(v[1] \div 16), HexUpper(v[1] % 16)>>)
         \o UrlEncode(Tail(v))

KeyOf(name) ==
    IF name = "setup_pwd" THEN KEY_SETUP_PWD
    ELSE IF name = "csrf" THEN KEY_CSRF
    ELSE IF name = "ssid" THEN KEY_SSID
    ELSE KEY_PASSWORD

\* A request: the order of the fields sent and the value the client means by each.
Req(order, pwd, csrf, ssid, password) ==
    [order |-> order, setup_pwd |-> pwd, csrf |-> csrf, ssid |-> ssid,
     password |-> password]

ValueOf(req, name) ==
    IF name = "setup_pwd" THEN req.setup_pwd
    ELSE IF name = "csrf" THEN HexText(req.csrf[1], 4) \o HexText(req.csrf[2], 4)
    ELSE IF name = "ssid" THEN req.ssid
    ELSE req.password

RECURSIVE BodyFrom(_, _)
BodyFrom(req, i) ==
    IF i > Len(req.order) THEN <<>>
    ELSE (IF i > 1 THEN <<AMP>> ELSE <<>>)
         \o KeyOf(req.order[i]) \o UrlEncode(ValueOf(req, req.order[i]))
         \o BodyFrom(req, i + 1)

Body(req) == BodyFrom(req, 1)

Sends(req, name) == \E i \in 1..Len(req.order) : req.order[i] = name

NoReq == Req(<<>>, <<>>, <<0, 0>>, <<>>, <<>>)

\* a wifi_credentials_t the caller passed, left as it was
NoOut == [ssid |-> <<>>, password |-> <<>>]

(***************************************************************************)
(* Inputs                                                                  *)
(***************************************************************************)
Macs == {<<161, 178, 195, 212>>}                      \* setup password "A1B2C3D4"
Home == <<72, 111, 109, 101>>                         \* "Home"
Secret == <<115, 101, 99, 114, 101, 116, 49, 50, 51>> \* "secret123"
WrongPwd == <<48, 48, 48, 48, 48, 48, 48, 48>>        \* "00000000"
DevicePwds == {generate_setup_password(m) : m \in Macs}
FormOrder == <<"setup_pwd", "ssid", "password", "csrf">>   \* the order of the form
SsidLast == <<"setup_pwd", "csrf", "password", "ssid">>
NoSsidField == <<"setup_pwd", "csrf", "password">>
NoCsrfField == <<"setup_pwd", "ssid", "password">>
SpecOrder == <<"setup_pwd", "csrf", "ssid", "password">>   \* the order of scenario A
MyNet == <<77, 121, 32, 38, 61, 37>>                  \* "My &=%"

\* what an undefined vTaskDelete of a deleted task does
\* what the build does on vTaskDelete of a deleted task; it is only ever asked
\* while the handle dangles
Undefined == IF timeout_task_handle = "dangling" THEN {"nothing", "crash"}
             ELSE {"nothing"}

\* the one call that fails in wifi_setup_connect, if any: the nvs_open of
\* wifi_setup_has_credentials, that of wifi_setup_get_credentials, or a driver
\* call under ESP_ERROR_CHECK
ConnectFaults == {"none", "nvs_has", "nvs_get", "driver"}

\* The requests sent while the whole lifecycle is explored: the form's own
\* submission, right or wrong in one field.
CoreRequests ==
    {Req(FormOrder, pw, t, Home, Secret) : pw \in DevicePwds, t \in Tokens}
    \cup {Req(FormOrder, WrongPwd, <<0, 0>>, Home, Secret)}
    \cup {Req(FormOrder, pw, <<0, 0>>, <<>>, Secret) : pw \in DevicePwds}

\* The requests sent while a portal session is explored.
AllRequests ==
    CoreRequests
    \cup {Req(order, pw, <<0, 0>>, ssid, Secret) :
            order \in {SpecOrder, SsidLast}, pw \in DevicePwds, ssid \in {Home, MyNet}}
    \cup {Req(order, pw, <<0, 0>>, MyNet, Secret) :
            order \in {FormOrder, NoSsidField, NoCsrfField}, pw \in DevicePwds}
    \cup {Req(<<>>, <<>>, <<0, 0>>, <<>>, <<>>)}

\* values longer than the buffers of wifi_credentials_t, and one whose 31st
\* byte is the '%' of an escape
LongSsid == [i \in 1..40 |-> 65 + (i % 26)]
LongPassword == [i \in 1..70 |-> 97 + (i % 26)]
EdgeSsid == [i \in 1..30 |-> 97] \o <<38>>

\* The requests sent while the credential store is explored: the form's
\* submission with values of every kind.
StoreValues ==
    {<<Home, Secret>>, <<MyNet, MyNet>>, <<Home, <<>> >>, <<LongSsid, LongPassword>>,
     <<EdgeSsid, Secret>>}

StoreRequests ==
    {Req(FormOrder, pw, <<0, 0>>, v[1], v[2]) : pw \in DevicePwds, v \in StoreValues}
    \cup {Req(FormOrder, WrongPwd, <<0, 0>>, MyNet, Secret)}

\* what the server receives of each request
Rx == [req \in AllRequests \cup StoreRequests |-> Received(Body(req))]

(***************************************************************************)
(* State after wifi_setup_init(); the store may hold an earlier boot's     *)
(* credentials.                                                            *)
(***************************************************************************)
Boot(op) ==
    /\ current_state' = "IDLE"
    /\ server' = FALSE
    /\ ap_netif' = FALSE
    /\ sta_netif' = FALSE
    /\ setup_callback' = FALSE
    /\ wifi_retry_num' = 0
    /\ stay_connected_flag' = FALSE
    /\ current_csrf_token' = <<0, 0>>
    /\ timeout_task_handle' = "null"
    /\ last_save_attempt' = 0
    /\ save_attempt_count' = 0
    /\ wifi' = "off"
    /\ handlers' = FALSE
    /\ link' = "none"
    /\ ttask' = "none"
    /\ ctasks' = [delay |-> 0, stop |-> 0, conn |-> 0]
    /\ evtask' = [pc |-> "idle", cb |-> <<>>]
    /\ now' = 0
    /\ last' = [op |-> op, from |-> "IDLE", ret |-> "ESP_OK", cb |-> <<>>,
                req |-> NoReq, status |-> 0, msg |-> "", out |-> NoOut]
    /\ attempts' = 0
    /\ posts' = 0
    /\ window_start' = -1
    /\ evq' = <<>>
    /\ app' = IF app = "caller" THEN "caller"
              ELSE IF op = "wake" THEN "woken"
              ELSE "app_main"
    /\ th' = 0
    /\ timers' = [t \in TimerIds |-> NoTimer]
    /\ armer' = [pc |-> "idle", op |-> "none", reg |-> 0]
    /\ thist' = [made |-> 0, cut |-> 0, fired |-> {}]

InitAs(task) ==
    /\ current_state = "IDLE"
    /\ server = FALSE
    /\ ap_netif = FALSE
    /\ sta_netif = FALSE
    /\ setup_callback = FALSE
    /\ wifi_retry_num = 0
    /\ stay_connected_flag = FALSE
    /\ current_csrf_token = <<0, 0>>
    /\ timeout_task_handle = "null"
    /\ last_save_attempt = 0
    /\ save_attempt_count = 0
    /\ mac \in Macs
    /\ nvs \in {NoCredentials, StoreOf(Home, Secret)}
    /\ wifi = "off"
    /\ handlers = FALSE
    /\ link = "none"
    /\ ttask = "none"
    /\ ctasks = [delay |-> 0, stop |-> 0, conn |-> 0]
    /\ evtask = [pc |-> "idle", cb |-> <<>>]
    /\ now = 0
    /\ last = [op |-> "init", from |-> "IDLE", ret |-> "ESP_OK", cb |-> <<>>,
               req |-> NoReq, status |-> 0, msg |-> "", out |-> NoOut]
    /\ attempts = 0
    /\ posts = 0
    /\ window_start = -1
    /\ evq = <<>>
    /\ app = task
    /\ th = 0
    /\ timers = [t \in TimerIds |-> NoTimer]
    /\ armer = [pc |-> "idle", op |-> "none", reg |-> 0]
    /\ thist = [made |-> 0, cut |-> 0, fired |-> {}]

\* after wifi_setup_init(), with a caller that may call any operation
Init == InitAs("caller")

(***************************************************************************)
(* Writing a globals record back                                           *)
(***************************************************************************)
Sat(n) == IF n > MaxCount THEN MaxCount ELSE n

CountOf(cb, v) == Cardinality({i \in 1..Len(cb) : cb[i] = v})

lifecycle == <<current_state, server, ap_netif, sta_netif, setup_callback,
               wifi_retry_num, stay_connected_flag, timeout_task_handle, ttask,
               wifi, handlers, link>>

http == <<current_csrf_token, last_save_attempt, save_attempt_count>>

\* The operation `op` ends with globals g; req and status describe an HTTP
\* request, out is what the operation wrote through its out-parameter.
CommitOut(g, op, req, status, msg, out) ==
    /\ current_state' = g.current_state
    /\ server' = g.server
    /\ ap_netif' = g.ap_netif
    /\ sta_netif' = g.sta_netif
    /\ setup_callback' = g.setup_callback
    /\ wifi_retry_num' = g.wifi_retry_num
    /\ stay_connected_flag' = g.stay_connected_flag
    /\ timeout_task_handle' = g.timeout_task_handle
    /\ ttask' = g.ttask
    /\ wifi' = g.wifi
    /\ handlers' = g.handlers
    /\ link' = g.link
    /\ last' = [op |-> op, from |-> current_state, ret |-> g.ret, cb |-> g.cb,
                req |-> req, status |-> status, msg |-> msg, out |-> out]
    /\ attempts' = IF op \in {"connect", "ct_connect"} /\ g.ret = "ESP_OK" THEN 0
                    ELSE IF op = "link_down" /\ g.link = "trying" THEN Sat(attempts + 1)
                    ELSE attempts
    /\ posts' = IF op = "post" THEN posts + 1 ELSE posts
    /\ window_start' = IF op = "post" /\ (window_start < 0
                                         \/ now - window_start >= RATE_LIMIT_WINDOW_MS)
                        THEN now ELSE window_start
    /\ app' = IF op \in {"func_boot_rst", "wakeup_routine"} THEN "delay"
              ELSE IF op = "enter_deep_sleep" THEN "asleep"
              ELSE IF op = "app_main_returns" THEN "returned"
              ELSE app

Commit(g, op, req, status, msg) == CommitOut(g, op, req, status, msg, NoOut)

\* abort() (a failed ESP_ERROR_CHECK) or a crash restarts the chip: the RAM is
\* as after wifi_setup_init(), the store is kept.
Restart == Boot("abort") /\ UNCHANGED <<mac, nvs>>

\* An operation of the lifecycle that leaves the HTTP state, the store and the
\* other tasks alone.
Run(g, op) ==
    IF g.crashed THEN Restart
    ELSE /\ Commit(g, op, NoReq, 0, "")
         /\ UNCHANGED <<http, mac, nvs, ctasks, evtask, now>>
         /\ UNCHANGED <<timervars, evq>>

(***************************************************************************)
(* The caller's task: the public API                                       *)
(***************************************************************************)
StartPortal ==
    \E fault \in {"none", "driver", "httpd"}, ub \in Undefined :
        Run(wifi_setup_start_portal(Globals, fault # "driver", fault # "httpd", ub),
            "start_portal")

StopPortal ==
    \E ub \in Undefined :
        Run(wifi_setup_stop_portal(Globals, "caller", ub), "stop_portal")

Connect ==
    \E stay \in BOOLEAN, fault \in ConnectFaults :
        Run(wifi_setup_connect(Globals, nvs, fault # "nvs_has", fault # "nvs_get",
                               TRUE, stay, fault # "driver"),
            "connect")

Disconnect ==
    \E ub \in Undefined :
        Run(wifi_setup_disconnect(Globals, "caller", ub), "disconnect")

ClearCredentials ==
    \E open_ok \in BOOLEAN :
        /\ nvs' = wifi_setup_clear_credentials(nvs, open_ok)
        /\ Commit([Globals EXCEPT !.ret = IF open_ok THEN "ESP_OK" ELSE "ESP_FAIL"],
                  "clear_credentials", NoReq, 0, "")
        /\ UNCHANGED <<http, mac, ctasks, evtask, now>>
        /\ UNCHANGED <<timervars, evq>>

\* what the history keeps of a read of the store: whether nvs_open succeeded
OpenResult(open_ok) == IF open_ok THEN "" ELSE "nvs_open failed"

HasCredentials ==
    \E open_ok \in BOOLEAN :
        /\ Commit([Globals EXCEPT
                      !.ret = IF wifi_setup_has_credentials(nvs, open_ok)
                              THEN "true" ELSE "false"],
                  "has_credentials", NoReq, 0, OpenResult(open_ok))
        /\ UNCHANGED <<http, mac, nvs, ctasks, evtask, now>>
        /\ UNCHANGED <<timervars, evq>>

GetCredentials ==
    \E open_ok \in BOOLEAN :
        LET r == wifi_setup_get_credentials(nvs, open_ok)
        IN  /\ CommitOut([Globals EXCEPT !.ret = r.err], "get_credentials", NoReq, 0,
                         OpenResult(open_ok),
                         [ssid |-> r.ssid, password |-> r.password])
            /\ UNCHANGED <<http, mac, nvs, ctasks, evtask, now>>
            /\ UNCHANGED <<timervars, evq>>

(***************************************************************************)
(* The timeout task                                                        *)
(***************************************************************************)
TimeoutFire ==
    /\ ttask # "none"
    /\ \E ub \in Undefined : Run(timeout_task(Globals, ub), "timeout")

(***************************************************************************)
(* The event-loop task: wifi_event_handler                                 *)
(***************************************************************************)
Delivers == handlers /\ wifi = "sta" /\ evtask.pc = "idle"

StaStart ==
    /\ Delivers
    /\ link = "start_pending"
    /\ Run(wifi_event_handler(Globals, "STA_START", "nothing"), "sta_start")

LinkDown ==
    /\ Delivers
    /\ link \in {"trying", "up"}
    /\ LET g == wifi_event_handler(Globals, "STA_DISCONNECTED", "nothing")
       IN  /\ Commit(g, "link_down", NoReq, 0, "")
           /\ evtask' = IF g.link = "down" THEN [pc |-> "fail_delay", cb |-> g.cb]
                        ELSE evtask
           /\ UNCHANGED <<http, mac, nvs, ctasks, now>>
           /\ UNCHANGED <<timervars, evq>>

GotIp ==
    /\ Delivers
    /\ link = "trying"
    /\ \E ub \in Undefined : Run(wifi_event_handler(Globals, "GOT_IP", ub), "got_ip")

\* the handler resumes after vTaskDelay(1000): cleanup_wifi_resources()
FailCleanup ==
    /\ evtask.pc = "fail_delay"
    /\ \E ub \in Undefined :
          LET g == cleanup_wifi_resources([Globals EXCEPT !.cb = evtask.cb], "event", ub)
          IN  IF g.crashed THEN Restart
              ELSE /\ Commit(g, "fail_cleanup", NoReq, 0, "")
                   /\ evtask' = [pc |-> "idle", cb |-> <<>>]
                   /\ UNCHANGED <<http, mac, nvs, ctasks, now>>
                   /\ UNCHANGED <<timervars, evq>>

(***************************************************************************)
(* The background connect task, one action per observable step             *)
(***************************************************************************)
CtBegin ==
    /\ ctasks.delay > 0
    /\ Commit([Globals EXCEPT !.current_state = "CONNECTING"], "ct_begin", NoReq, 0, "")
    /\ ctasks' = [ctasks EXCEPT !.delay = @ - 1, !.stop = @ + 1]
    /\ UNCHANGED <<http, mac, nvs, evtask, now>>
    /\ UNCHANGED <<timervars, evq>>

CtStopPortal ==
    /\ ctasks.stop > 0
    /\ \E ub \in Undefined :
          LET g == wifi_setup_stop_portal(Globals, "connect_task", ub)
          IN  IF g.crashed THEN Restart
              ELSE /\ Commit(g, "ct_stop_portal", NoReq, 0, "")
                   /\ ctasks' = [ctasks EXCEPT !.stop = @ - 1, !.conn = @ + 1]
                   /\ UNCHANGED <<http, mac, nvs, evtask, now>>
                   /\ UNCHANGED <<timervars, evq>>

CtConnect ==
    /\ ctasks.conn > 0
    /\ \E fault \in ConnectFaults :
          LET g == wifi_connect_task_connect(Globals, nvs, fault # "nvs_has",
                                             fault # "nvs_get", fault # "driver")
          IN  IF g.crashed THEN Restart
              ELSE /\ Commit(g, "ct_connect", NoReq, 0, "")
                   /\ ctasks' = [ctasks EXCEPT !.conn = @ - 1]
                   /\ UNCHANGED <<http, mac, nvs, evtask, now>>
                   /\ UNCHANGED <<timervars, evq>>

(***************************************************************************)
(* The HTTP server task                                                    *)
(***************************************************************************)
\* a client reaches the server over the access point or the connected station
Serving == server /\ (wifi = "ap" \/ (wifi = "sta" /\ link = "up"))

\* setup_get_handler: current_csrf_token = esp_random()
Get ==
    /\ Serving
    /\ \E t \in Tokens : current_csrf_token' = t
    /\ Commit(Globals, "get", NoReq, 200, "setup form")
    /\ UNCHANGED <<last_save_attempt, save_attempt_count, mac, nvs, ctasks, evtask, now>>
    /\ UNCHANGED <<timervars, evq>>

\* save_post_handler for one of `requests`, while fewer than `cap` requests
\* have been handled and fewer than `tasks` connect tasks exist
Post(requests, cap, tasks) ==
    /\ Serving
    /\ posts < cap
    /\ ctasks.delay + ctasks.stop + ctasks.conn < tasks
    /\ \E req \in requests :
       \E fault \in PostFaults(Rx[req], now, last_save_attempt, save_attempt_count,
                               setup_password, current_csrf_token) :
       \E r \in {save_post_handler(Rx[req], now, last_save_attempt,
                                   save_attempt_count, setup_password,
                                   current_csrf_token, fault)} :
          LET a == r.answer
          IN  /\ last_save_attempt' = r.last_attempt
              /\ save_attempt_count' = r.count
              /\ nvs' = IF a.save THEN StoreOf(a.ssid, a.password) ELSE nvs
              /\ ctasks' = IF a.spawn THEN [ctasks EXCEPT !.delay = @ + 1] ELSE ctasks
              /\ Commit([Globals EXCEPT !.ret = a.ret], "post", req, a.status, a.msg)
    /\ UNCHANGED <<current_csrf_token, mac, evtask, now>>
    /\ UNCHANGED <<timervars, evq>>

(***************************************************************************)
(* Time                                                                    *)
(***************************************************************************)
Tick ==
    /\ \E d \in TickSteps :
          /\ now + d <= MaxNow
          /\ now' = now + d
    /\ UNCHANGED <<lifecycle, http, mac, nvs, ctasks, evtask, last, attempts, posts,
                   window_start, app>>
    /\ UNCHANGED <<timervars, evq>>

Next ==
    \/ StartPortal \/ StopPortal \/ Connect \/ Disconnect \/ ClearCredentials
    \/ TimeoutFire
    \/ StaStart \/ LinkDown \/ GotIp \/ FailCleanup
    \/ CtBegin \/ CtStopPortal \/ CtConnect
    \/ Get \/ Post(CoreRequests, MaxPosts, MaxConnTasks)

\* The whole lifecycle, every operation at any time, within the first
\* rate-limit window after boot.
Spec == Init /\ [][Next]_vars

\* One portal session as the boot routine of main.c runs it: the caller starts
\* the portal and calls nothing else; clients, time and the tasks do the rest.
NextPortal ==
    \/ StartPortal
    \/ TimeoutFire
    \/ CtBegin \/ CtStopPortal \/ CtConnect
    \/ Get \/ Post(AllRequests, MaxAttempts, MaxConnTasks)
    \/ Tick

SpecPortal == Init /\ [][NextPortal]_vars

\* Portal sessions in which no client ever asks for the setup form: every
\* request is a POST /save.
NextNoForm ==
    \/ StartPortal
    \/ TimeoutFire
    \/ CtBegin \/ CtStopPortal \/ CtConnect
    \/ Post(AllRequests, MaxSessionPosts, MaxConnTasks)

SpecNoForm == Init /\ [][NextNoForm]_vars

\* A portal session in which clients go on submitting while a connect task
\* is waiting in its vTaskDelay(1000) or has not yet stopped the portal.
NextSession ==
    \/ StartPortal
    \/ TimeoutFire
    \/ CtBegin \/ CtStopPortal \/ CtConnect
    \/ Get \/ Post(CoreRequests, MaxSessionPosts, MaxSessionTasks)

SpecSession == Init /\ [][NextSession]_vars

(***************************************************************************)
(* Events in flight: the Wi-Fi driver and the IP stack post their events   *)
(* to the default event loop, whose task calls wifi_event_handler for each *)
(* one later, if the handler is still registered then.  Here `link` is the *)
(* driver's own view of the station: "start_pending", "started", "trying", *)
(* "up" or "down".                                                         *)
(***************************************************************************)
DriverPosts(event, to) ==
    /\ wifi = "sta"
    /\ Len(evq) < MaxQueued
    /\ evq' = Append(evq, event)
    /\ Commit([Globals EXCEPT !.link = to], "event_posted", NoReq, 0, "")
    /\ UNCHANGED <<http, mac, nvs, ctasks, evtask, now>>
    /\ UNCHANGED timervars

\* esp_wifi_start() has started the station
PostStaStart == link = "start_pending" /\ DriverPosts("STA_START", "started")

\* the station is associated and has its address
PostGotIp == link = "trying" /\ DriverPosts("GOT_IP", "up")

\* the association failed or was lost
PostDisconnected ==
    link \in {"trying", "up"} /\ DriverPosts("STA_DISCONNECTED", "down")

OpOf(event) ==
    IF event = "STA_START" THEN "sta_start"
    ELSE IF event = "GOT_IP" THEN "got_ip"
    ELSE "link_down"

\* the handler's esp_wifi_connect() (lines 194, 197) starts an association
\* only on a started, idle station
ConnectCalled(g, event) ==
    \/ event = "STA_START"
    \/ event = "STA_DISCONNECTED"
       /\ g.wifi_retry_num < MAX_RETRY /\ g.current_state = "CONNECTING"

\* the event loop's task takes the oldest event and calls wifi_event_handler,
\* or drops the event if the handler is not registered
Dispatch ==
    /\ evq # <<>>
    /\ evtask.pc = "idle"
    /\ \E ub \in Undefined :
          LET e == Head(evq)
              h == wifi_event_handler(Globals, e, ub)
              fails == e = "STA_DISCONNECTED" /\ ~ConnectCalled(Globals, e)
              g == [h EXCEPT !.link = IF /\ ConnectCalled(Globals, e)
                                         /\ wifi = "sta"
                                         /\ link \in {"started", "down"}
                                      THEN "trying" ELSE link]
          IN  IF ~handlers
              THEN /\ Commit(Globals, "event_dropped", NoReq, 0, "")
                   /\ evq' = Tail(evq)
                   /\ UNCHANGED <<http, mac, nvs, ctasks, evtask, now>>
                   /\ UNCHANGED timervars
              ELSE IF g.crashed THEN Restart
              ELSE /\ Commit(g, OpOf(e), NoReq, 0, "")
                   /\ evq' = Tail(evq)
                   /\ evtask' = IF fails THEN [pc |-> "fail_delay", cb |-> g.cb]
                                ELSE evtask
                   /\ UNCHANGED <<http, mac, nvs, ctasks, now>>
                   /\ UNCHANGED timervars

\* The station's life with its events in flight: a caller of the API, the
\* driver, the event loop's task and the timeout task.
NextEvents ==
    \/ Connect \/ StopPortal \/ Disconnect
    \/ PostStaStart \/ PostGotIp \/ PostDisconnected
    \/ Dispatch \/ FailCleanup
    \/ TimeoutFire

SpecEvents == Init /\ [][NextEvents]_vars

(***************************************************************************)
(* The main task: app_main (main.c) and the deep-sleep manager              *)
(***************************************************************************)
\* func_boot_rst: wifi_setup_init(), a look at the store, wifi_setup_start_portal()
\* and wifi_setup_get_state(), without waiting in between or afterwards.
func_boot_rst(g, init_ok, drv_ok, httpd_ok) ==
    IF ~init_ok THEN [g EXCEPT !.ret = "ESP_FAIL"]
    ELSE wifi_setup_start_portal(g, drv_ok, httpd_ok, "nothing")

\* app_main after a power-on or a reset: handle_wakeup() runs func_boot_rst
AppBootRst ==
    /\ app = "app_main"
    /\ \E fault \in {"none", "init", "driver", "httpd"} :
          Run(func_boot_rst(Globals, fault # "init", fault # "driver",
                            fault # "httpd"),
              "func_boot_rst")

\* app_main after a wake-up by the switch or the timer: func_switch or
\* func_scheduled, neither of which touches the Wi-Fi component
AppWakeupRoutine ==
    /\ app = "woken"
    /\ Run(Globals, "wakeup_routine")

\* deep_sleep_manager_init() fails and app_main returns
AppInitFails ==
    /\ app \in {"app_main", "woken"}
    /\ Run([Globals EXCEPT !.ret = "ESP_FAIL"], "app_main_returns")

\* vTaskDelay(5000); enter_deep_sleep(): the wake-up sources, vTaskDelay(100),
\* esp_deep_sleep_start().  Nothing of the Wi-Fi component is consulted.
AppEnterDeepSleep ==
    /\ app = "delay"
    /\ Commit(Globals, "enter_deep_sleep", NoReq, 0, "")
    /\ now' = now + MAIN_DELAY_MS + SLEEP_DELAY_MS
    /\ UNCHANGED <<http, mac, nvs, ctasks, evtask>>
    /\ UNCHANGED <<timervars, evq>>

\* the chip wakes from deep sleep: the RAM is lost, app_main starts again
AppWake ==
    /\ app = "asleep"
    /\ Boot("wake")
    /\ UNCHANGED <<mac, nvs>>

\* The firmware as app_main runs it.  The other tasks run while the main task
\* is in its 5 s delay; no timeout (30 s, 300 s) can end within it.
NextMain ==
    \/ AppBootRst \/ AppWakeupRoutine \/ AppInitFails \/ AppEnterDeepSleep \/ AppWake
    \/ /\ app = "delay"
       /\ \/ Get \/ Post(CoreRequests, MaxPosts, MaxConnTasks)
          \/ CtBegin \/ CtStopPortal \/ CtConnect
          \/ StaStart \/ LinkDown \/ GotIp \/ FailCleanup

SpecMain == InitAs("app_main") /\ [][NextMain]_vars

\* The credential store and its users: submissions through the portal, the
\* background connect task they start, and a caller that reads and clears the
\* store and connects with what it holds.
NextStore ==
    \/ StartPortal
    \/ Get \/ Post(StoreRequests, MaxStorePosts, MaxConnTasks)
    \/ CtBegin \/ CtStopPortal \/ CtConnect
    \/ HasCredentials \/ GetCredentials \/ ClearCredentials \/ Connect

SpecStore == Init /\ [][NextStore]_vars

(***************************************************************************)
(* The timeout mechanism statement by statement (lines 88-131): one        *)
(* context that arms and cancels (the caller's API calls and the event     *)
(* handler's GOT_IP branch) and the timeout tasks, interleaved at every     *)
(* statement that reads or writes timeout_task_handle or deletes a task.   *)
(***************************************************************************)
Alive == {"sleep", "test", "if", "del", "clr", "act", "clr109", "exit"}

\* a task whose timeout action can still run
Pending == {"sleep", "test", "if", "del", "clr", "act"}

\* Variant: a deletion of another task that does not stop it.
vTaskDeleteSelfOnly(tms, h, self) ==
    IF h = 0
    THEN [timers |-> IF self = 0 THEN tms ELSE [tms EXCEPT ![self].pc = "dead"],
          self_dead |-> TRUE, undefined |-> FALSE]
    ELSE IF h = self
    THEN [timers |-> [tms EXCEPT ![h].pc = "dead"],
          self_dead |-> TRUE, undefined |-> FALSE]
    ELSE [timers |-> tms, self_dead |-> FALSE, undefined |-> FALSE]

\* vTaskDelete(h) called by `self` (0: the arming context).  NULL deletes the
\* calling task; deleting a deleted task is undefined.
vTaskDelete(tms, h, self) ==
    IF h = 0
    THEN [timers |-> IF self = 0 THEN tms ELSE [tms EXCEPT ![self].pc = "dead"],
          self_dead |-> TRUE, undefined |-> FALSE]
    ELSE IF tms[h].pc \in Alive
    THEN [timers |-> [tms EXCEPT ![h].pc = "dead"],
          self_dead |-> h = self, undefined |-> FALSE]
    ELSE [timers |-> tms, self_dead |-> FALSE, undefined |-> TRUE]

\* what the build does on the undefined deletion
UndefinedDelete(d) == IF d.undefined THEN {"nothing", "crash"} ELSE {"nothing"}

\* `if (timeout_task_handle) vTaskDelete(timeout_task_handle);` without a lock:
\* the build passes the value it tested or reads the handle again.
DeleteArgs(reg) == {reg, th}

\* wifi_setup_start_portal up to its call of start_timeout_task (lines 461-497)
StartPortalHead(g) ==
    [g EXCEPT !.setup_callback = TRUE, !.current_state = "PORTAL_RUNNING",
              !.stay_connected_flag = FALSE, !.ap_netif = TRUE, !.handlers = TRUE,
              !.wifi = "ap", !.link = "none"]

\* wifi_setup_start_portal after start_timeout_task (lines 502-520)
StartPortalTail(g, httpd_ok) ==
    IF httpd_ok THEN [g EXCEPT !.server = TRUE, !.ret = "ESP_OK"]
    ELSE [g EXCEPT !.ret = "ESP_FAIL"]

\* wifi_setup_stop_portal after stop_timeout_task (lines 527-541)
StopPortalTail(g) ==
    [g EXCEPT !.server = FALSE, !.wifi = "off", !.link = "none",
              !.ap_netif = FALSE, !.current_state = "IDLE"]

\* cleanup_wifi_resources after stop_timeout_task (lines 165-180)
CleanupTail(g) ==
    IF g.current_state # "DISABLED"
    THEN [g EXCEPT !.wifi = "off", !.link = "none", !.sta_netif = FALSE,
                   !.handlers = FALSE, !.current_state = "DISABLED"]
    ELSE g

\* the GOT_IP branch up to its test of stay_connected_flag (lines 210-214)
GotIpHead(g) ==
    [g EXCEPT !.link = "up", !.wifi_retry_num = 0, !.current_state = "CONNECTED"]

\* what a timeout task does once its stop_timeout_task has returned: the rest
\* of wifi_setup_disconnect and line 97-98, or the rest of
\* wifi_setup_stop_portal and lines 103-105
TimeoutAction(g, path) ==
    IF path = "disconnect"
    THEN InvokeCallback(InvokeCallback(CleanupTail(g), FALSE), FALSE)
    ELSE InvokeCallback([StopPortalTail(g) EXCEPT !.current_state = "DISABLED"], FALSE)

Arming == {"start_portal", "got_ip"}

\* A step of the timer model: globals g, and the rest of the program's state
\* left alone.
TimerCommit(g, op) ==
    /\ Commit(g, op, NoReq, 0, "")
    /\ UNCHANGED <<http, mac, nvs, ctasks, evtask, now, evq>>

\* The context calls start_portal(), stop_portal() or disconnect() and runs it
\* up to the `if` of start_timeout_task / stop_timeout_task.
CtxCall ==
    /\ armer.pc = "idle"
    /\ \E op \in {"start_portal", "stop_portal", "disconnect"} :
          /\ armer' = [pc |-> "if", op |-> op, reg |-> 0]
          /\ TimerCommit(IF op = "start_portal" THEN StartPortalHead(Globals)
                         ELSE Globals, "call")
    /\ UNCHANGED <<th, timers, thist>>

\* connect() by the context: it touches no timeout
CtxConnect == armer.pc = "idle" /\ Connect

\* the station's start event, handled by the context
CtxStaStart == armer.pc = "idle" /\ StaStart

\* The address-acquired event: lines 210-219 up to the `if` of
\* start_timeout_task, or all of the branch when stay_connected_flag is set.
CtxGotIp ==
    /\ armer.pc = "idle"
    /\ Delivers
    /\ link = "trying"
    /\ IF stay_connected_flag
       THEN /\ TimerCommit(InvokeCallback(GotIpHead(Globals), TRUE), "got_ip")
            /\ UNCHANGED armer
       ELSE /\ TimerCommit(GotIpHead(Globals), "call")
            /\ armer' = [pc |-> "if", op |-> "got_ip", reg |-> 0]
    /\ UNCHANGED <<th, timers, thist>>

\* if (timeout_task_handle)
CtxIf ==
    /\ armer.pc = "if"
    /\ armer' = [armer EXCEPT !.reg = th,
                              !.pc = IF th # 0 THEN "del"
                                     ELSE IF armer.op \in Arming THEN "create"
                                     ELSE "rest"]
    /\ thist' = IF th = 0 /\ armer.op \notin Arming
                THEN [thist EXCEPT !.cut = thist.made] ELSE thist
    /\ TimerCommit(Globals, "step")
    /\ UNCHANGED <<th, timers>>

\* vTaskDelete(timeout_task_handle)
CtxDel ==
    /\ armer.pc = "del"
    /\ \E h \in DeleteArgs(armer.reg) :
       \E d \in {vTaskDelete(timers, h, 0)} :
       \E ub \in UndefinedDelete(d) :
          IF ub = "crash" THEN Restart
          ELSE /\ timers' = d.timers
               /\ armer' = [armer EXCEPT !.pc = IF d.self_dead THEN "dead" ELSE "clr"]
               /\ TimerCommit(Globals, "step")
               /\ UNCHANGED <<th, thist>>

\* timeout_task_handle = NULL
CtxClr ==
    /\ armer.pc = "clr"
    /\ th' = 0
    /\ armer' = [armer EXCEPT !.pc = IF armer.op \in Arming THEN "create" ELSE "rest"]
    /\ thist' = IF armer.op \in Arming THEN thist
                ELSE [thist EXCEPT !.cut = thist.made]
    /\ TimerCommit(Globals, "step")
    /\ UNCHANGED timers

\* the tasks after xTaskCreate(timeout_task, ...) made the task `id`
CreateTimer(tms, id, kind) ==
    [tms EXCEPT ![id] = [NoTimer EXCEPT !.pc = "sleep", !.kind = kind]]

\* xTaskCreate(timeout_task, ..., &timeout_task_handle)
CtxCreate ==
    /\ armer.pc = "create"
    /\ thist.made < MaxTimers
    /\ timers' = CreateTimer(timers, thist.made + 1,
                             IF armer.op = "start_portal" THEN "portal" ELSE "connect")
    /\ th' = thist.made + 1
    /\ thist' = [thist EXCEPT !.made = @ + 1, !.cut = thist.made]
    /\ armer' = [armer EXCEPT !.pc = "rest"]
    /\ TimerCommit(Globals, "step")

\* the rest of the call after start_timeout_task / stop_timeout_task
CtxRest ==
    /\ armer.pc = "rest"
    /\ armer' = [pc |-> "idle", op |-> "none", reg |-> 0]
    /\ \E httpd_ok \in BOOLEAN :
          TimerCommit(IF armer.op = "start_portal"
                      THEN StartPortalTail(Globals, httpd_ok)
                      ELSE IF armer.op = "got_ip" THEN InvokeCallback(Globals, TRUE)
                      ELSE IF armer.op = "stop_portal" THEN StopPortalTail(Globals)
                      ELSE InvokeCallback(CleanupTail(Globals), FALSE),
                      armer.op)
    /\ UNCHANGED <<th, timers, thist>>

\* vTaskDelay(timeout_ms) returns
TimerWake(t) ==
    /\ timers[t].pc = "sleep"
    /\ timers' = [timers EXCEPT ![t].pc = "test", ![t].woke = TRUE]
    /\ TimerCommit(Globals, "step")
    /\ UNCHANGED <<th, armer, thist>>

\* lines 94 and 100: which action, if any
TimerTest(t) ==
    /\ timers[t].pc = "test"
    /\ timers' = [timers EXCEPT
                    ![t].pc = IF current_state \in {"CONNECTED", "PORTAL_RUNNING"}
                                 /\ (current_state = "CONNECTED" => ~stay_connected_flag)
                              THEN "if" ELSE "clr109",
                    ![t].path = IF current_state = "CONNECTED" /\ ~stay_connected_flag
                                THEN "disconnect"
                                ELSE IF current_state = "PORTAL_RUNNING" THEN "stop_portal"
                                ELSE "none"]
    /\ TimerCommit(Globals, "step")
    /\ UNCHANGED <<th, armer, thist>>

\* stop_timeout_task as the timeout task runs it inside its own action
TimerStop(t) ==
    /\ timers[t].pc \in {"if", "del", "clr"}
    /\ \/ /\ timers[t].pc = "if"
          /\ timers' = [timers EXCEPT ![t].reg = th,
                                      ![t].pc = IF th # 0 THEN "del" ELSE "act"]
          /\ TimerCommit(Globals, "step")
          /\ UNCHANGED <<th, armer, thist>>
       \/ /\ timers[t].pc = "del"
          /\ \E h \in DeleteArgs(timers[t].reg) :
             \E d \in {vTaskDelete(timers, h, t)} :
             \E ub \in UndefinedDelete(d) :
                IF ub = "crash" THEN Restart
                ELSE /\ timers' = IF d.self_dead THEN d.timers
                                  ELSE [d.timers EXCEPT ![t].pc = "clr"]
                     /\ TimerCommit(Globals, "step")
                     /\ UNCHANGED <<th, armer, thist>>
       \/ /\ timers[t].pc = "clr"
          /\ th' = 0
          /\ timers' = [timers EXCEPT ![t].pc = "act"]
          /\ thist' = [thist EXCEPT !.cut = IF t = thist.made THEN t - 1 ELSE thist.made]
          /\ TimerCommit(Globals, "step")
          /\ UNCHANGED armer

\* the timeout action proper, then lines 109 and 110
TimerFinish(t) ==
    /\ timers[t].pc \in {"act", "clr109", "exit"}
    /\ \/ /\ timers[t].pc = "act"
          /\ timers' = [timers EXCEPT ![t].pc = "clr109"]
          /\ thist' = [thist EXCEPT !.fired = @ \cup {t}]
          /\ TimerCommit(TimeoutAction(Globals, timers[t].path), "timeout")
          /\ UNCHANGED <<th, armer>>
       \/ /\ timers[t].pc = "clr109"
          /\ th' = 0
          /\ timers' = [timers EXCEPT ![t].pc = "exit"]
          /\ TimerCommit(Globals, "step")
          /\ UNCHANGED <<armer, thist>>
       \/ /\ timers[t].pc = "exit"
          /\ timers' = [timers EXCEPT ![t].pc = "dead"]
          /\ TimerCommit(Globals, "step")
          /\ UNCHANGED <<th, armer, thist>>

NextTimer ==
    \/ CtxCall \/ CtxConnect \/ CtxStaStart \/ CtxGotIp
    \/ CtxIf \/ CtxDel \/ CtxClr \/ CtxCreate \/ CtxRest
    \/ \E t \in TimerIds : TimerWake(t)
    \/ \E t \in TimerIds : TimerTest(t)
    \/ \E t \in TimerIds : TimerStop(t)
    \/ \E t \in TimerIds : TimerFinish(t)

SpecTimer == Init /\ [][NextTimer]_vars
(***************************************************************************)
(* Properties of the lifecycle                                             *)
(***************************************************************************)
\* A step that ran the operation `op` (a restart of the chip is no operation
\* of the program).
Ran(op) == last'.op = op

\* The state table of the connection manager: from, to, the operation that
\* makes the change.  The connect task's first step is the accepted submission's
\* move to Connecting, from whatever state the caller has left meanwhile.
StateTable ==
    {<<"IDLE", "PORTAL_RUNNING", "start_portal">>,
     <<"any", "CONNECTING", "ct_begin">>,
     <<"PORTAL_RUNNING", "DISABLED", "timeout">>,
     <<"CONNECTING", "CONNECTED", "got_ip">>,
     <<"CONNECTING", "FAILED", "link_down">>,
     <<"FAILED", "DISABLED", "fail_cleanup">>,
     <<"CONNECTED", "DISABLED", "timeout">>,
     <<"any", "DISABLED", "disconnect">>}

\* The caller's own calls move the state as the interface documents them.
CallerCall ==
    \/ Ran("start_portal") /\ current_state' = "PORTAL_RUNNING"
    \/ Ran("stop_portal") /\ current_state' = "IDLE"
    \/ Ran("connect") /\ current_state' = "CONNECTING"

\* C1: every change of the connection state an observer can see is a transition
\* of the state table, made by the operation the table names; no state such as
\* Idle is passed through between PortalRunning and Connecting.  (Stated for the
\* changes the program makes by itself or by disconnect(): CallerCall aside.)
C1_TransitionsFollowTable ==
    [][(~Ran("abort") /\ ~CallerCall /\ current_state' # current_state)
        => \E t \in StateTable :
              /\ t[1] \in {current_state, "any"}
              /\ t[2] = current_state'
              /\ Ran(t[3])]_vars

\* The connect task, having shown Connecting, has just put the state back to Idle.
C1_IdleAfterConnecting ==
    /\ last.op = "ct_stop_portal"
    /\ last.from = "CONNECTING"
    /\ current_state = "IDLE"

\* C2: when the portal timeout fires in PortalRunning with no submission
\* accepted, the server is stopped, the access point is torn down, the state is
\* Disabled and the callback has received false.
C2_PortalTimeoutDisables ==
    (/\ last.op = "timeout"
     /\ last.from = "PORTAL_RUNNING"
     /\ ctasks.delay + ctasks.stop + ctasks.conn = 0)
    => /\ ~server
       /\ wifi = "off"
       /\ ~ap_netif
       /\ current_state = "DISABLED"
       /\ last.cb = <<FALSE>>

\* The portal timeout has fired and the portal is still up.
C2_PortalSurvivesTimeout ==
    /\ last.op = "timeout"
    /\ last.from = "PORTAL_RUNNING"
    /\ ctasks.delay + ctasks.stop + ctasks.conn = 0
    /\ current_state = "PORTAL_RUNNING"
    /\ server
    /\ timeout_task_handle = "dangling"

\* C3: when the grace timeout fires on a connection made without
\* stay_connected, the station is disconnected, driver, station interface and
\* event handlers are released and the state is Disabled.
C3_GraceTimeoutDisables ==
    (/\ last.op = "timeout"
     /\ last.from = "CONNECTED"
     /\ ~stay_connected_flag)
    => /\ wifi = "off"
       /\ link = "none"
       /\ ~sta_netif
       /\ ~handlers
       /\ current_state = "DISABLED"

\* The grace timeout has fired and the station is still connected.
C3_ConnectionSurvivesTimeout ==
    /\ last.op = "timeout"
    /\ last.from = "CONNECTED"
    /\ ~stay_connected_flag
    /\ current_state = "CONNECTED"
    /\ link = "up"

\* C4: when the retries are exhausted and the state became Failed, the event
\* handler's failure handling (up to its cleanup) has delivered false to the
\* callback exactly once.
C4_FailureDeliveredOnce ==
    (/\ last.op = "fail_cleanup"
     /\ wifi_retry_num = MAX_RETRY
     /\ setup_callback)
    => CountOf(last.cb, FALSE) = 1

\* The failure handling of an exhausted session has ended without a callback.
C4_FailureNotDelivered ==
    /\ last.op = "fail_cleanup"
    /\ last.from = "FAILED"
    /\ wifi_retry_num = MAX_RETRY
    /\ setup_callback
    /\ last.cb = <<>>

\* C5: a successful connect() resets the retry counter; each link-down while
\* Connecting with retries left retries, counts and stays Connecting; with none
\* left it moves to Failed, and the cleanup after the grace period to Disabled;
\* the counter stays within 0..3 and no connect() is followed by more than 3
\* reconnect attempts.
C5_RetryProtocol ==
    /\ [](wifi_retry_num \in 0..MAX_RETRY /\ attempts <= MAX_RETRY)
    /\ [][/\ (Ran("connect") /\ last'.ret = "ESP_OK") => wifi_retry_num' = 0
          /\ (Ran("link_down") /\ current_state = "CONNECTING")
             => IF wifi_retry_num < MAX_RETRY
                THEN /\ wifi_retry_num' = wifi_retry_num + 1
                     /\ current_state' = "CONNECTING"
                     /\ link' = "trying"
                ELSE /\ wifi_retry_num' = wifi_retry_num
                     /\ current_state' = "FAILED"
          /\ (Ran("fail_cleanup") /\ current_state = "FAILED")
             => current_state' = "DISABLED"]_vars

\* A fourth reconnect attempt has been made since the last connect().
C5_FourthAttempt ==
    /\ last.op = "link_down"
    /\ current_state = "CONNECTING"
    /\ link = "trying"
    /\ attempts = MAX_RETRY + 1

ValidSubmission ==
    /\ last.op = "post"
    /\ \A name \in {"setup_pwd", "csrf", "ssid", "password"} : Sends(last.req, name)
    /\ last.req.setup_pwd = setup_password
    /\ last.req.csrf = current_csrf_token
    /\ last.req.ssid # <<>>

\* C7: a POST /save received in PortalRunning that is not rate-limited and
\* carries the correct setup password, the current token, a non-empty ssid and
\* a password is answered 200, the store holds exactly the submitted ssid and
\* password, and the connect task that leads to Connecting is started (storage
\* and memory permitting).
C7_ValidSubmissionAccepted ==
    (/\ ValidSubmission
     /\ last.from = "PORTAL_RUNNING"
     /\ last.msg \notin {"Too many attempts", "Save failed"})
    => /\ last.status = 200
       /\ nvs = StoreOf(last.req.ssid, last.req.password)
       /\ last.ret = "ESP_OK" => ctasks.delay >= 1

\* A valid submission whose last field is the ssid has been answered 400.
C7_ValidSubmissionRejected ==
    /\ ValidSubmission
    /\ last.from = "PORTAL_RUNNING"
    /\ last.req.order = SsidLast
    /\ last.status = 400
    /\ last.msg = "SSID required"

\* C8: a POST /save that is rejected, for whatever reason, leaves the stored
\* credentials, the connection state, the retry counter and the current token
\* unchanged and starts no connection attempt.
C8_RejectedPostChangesNothing ==
    [][(Ran("post") /\ last'.status # 200)
        => /\ nvs' = nvs
           /\ current_state' = current_state
           /\ wifi_retry_num' = wifi_retry_num
           /\ current_csrf_token' = current_csrf_token
           /\ ctasks' = ctasks
           /\ wifi' = wifi
           /\ link' = link
           /\ server' = server]_vars

\* Scenario B: the right setup password with a token that is not the current
\* one has been answered 403, and nothing is stored.
C8_StaleTokenRejected ==
    /\ last.op = "post"
    /\ last.req.setup_pwd = setup_password
    /\ last.req.csrf # current_csrf_token
    /\ last.status = 403
    /\ last.msg = "Invalid request"
    /\ current_state = "PORTAL_RUNNING"
    /\ nvs = NoCredentials

\* C9: the stored credentials change only by a POST /save that passed every
\* check of that request (let in by the rate limiter, the device's setup
\* password, the current token, a non-empty ssid), which stores what it
\* carried, or by clear_credentials, which deletes them; no other operation
\* changes them.
C9_OnlyCheckedPostWrites ==
    [][nvs' # nvs
        => \/ /\ Ran("post")
              /\ last'.status = 200
              /\ \/ now - last_save_attempt >= RATE_LIMIT_WINDOW_MS
                 \/ save_attempt_count < MAX_SAVE_ATTEMPTS
              /\ last'.req.setup_pwd = setup_password
              /\ last'.req.csrf = current_csrf_token
              /\ last'.req.ssid # <<>>
              /\ nvs' = StoreOf(last'.req.ssid, last'.req.password)
           \/ /\ Ran("clear_credentials")
              /\ nvs' = NoCredentials]_vars

\* A POST that passed every check has been answered 200 and the store holds
\* what it carried.
C9_CheckedPostStored ==
    /\ ValidSubmission
    /\ last.status = 200
    /\ current_state = "PORTAL_RUNNING"
    /\ nvs = StoreOf(last.req.ssid, last.req.password)

\* C10: of the POSTs that arrive within one window of 60000 ms (here: the
\* window that opens at boot), the first five are not rate-limited and the
\* sixth and later ones get the rate limiter's rejection, whatever they carry.
C10_SixthInWindowDenied ==
    (last.op = "post" /\ now < RATE_LIMIT_WINDOW_MS)
    => /\ posts <= MAX_SAVE_ATTEMPTS => last.msg # "Too many attempts"
       /\ posts > MAX_SAVE_ATTEMPTS
          => last.status = 500 /\ last.msg = "Too many attempts"

\* The sixth POST of the window, a valid submission, has been turned away.
C10_SixthValidDenied ==
    /\ ValidSubmission
    /\ posts = MAX_SAVE_ATTEMPTS + 1
    /\ now < RATE_LIMIT_WINDOW_MS
    /\ last.status = 500
    /\ last.msg = "Too many attempts"

\* C11: the rate limiter is a fixed-window counter: a POST that arrives at least
\* 60000 ms after the POST that opened the window is let in and counted as the
\* first of a new window, whatever happened inside the window; later POSTs of
\* the window do not move its start.
C11_FixedWindowResets ==
    [][(/\ Ran("post")
        /\ window_start >= 0
        /\ now - window_start >= RATE_LIMIT_WINDOW_MS)
        => /\ last'.msg # "Too many attempts"
           /\ save_attempt_count' = 1]_vars

\* A POST that arrived a whole window after the one that opened the window has
\* been turned away by the rate limiter.
C11_DeniedAfterWindow ==
    /\ last.op = "post"
    /\ posts > 1
    /\ window_start = now
    /\ now >= RATE_LIMIT_WINDOW_MS
    /\ last.status = 500
    /\ last.msg = "Too many attempts"

\* C12: the token check of POST /save lets a submission pass if and only if the
\* token it carries equals the token the latest GET / issued; the check does
\* not consume the token (only a GET / changes it), and a GET / that issues a
\* new token makes a submission with the earlier one a 403.  (Stated for
\* submissions that carry a csrf field and reach the token check: let in by the
\* rate limiter, with the device's setup password.)
C12_TokenCheck ==
    [][/\ current_csrf_token' # current_csrf_token
          => (Ran("get") \/ Ran("abort"))
       /\ Ran("get") => current_csrf_token' \in Tokens
       /\ (/\ Ran("post")
           /\ \/ now - last_save_attempt >= RATE_LIMIT_WINDOW_MS
              \/ save_attempt_count < MAX_SAVE_ATTEMPTS
           /\ Sends(last'.req, "setup_pwd")
           /\ last'.req.setup_pwd = setup_password
           /\ Sends(last'.req, "csrf"))
          => /\ (last'.status = 403 /\ last'.msg = "Invalid request")
                <=> last'.req.csrf # current_csrf_token
             /\ current_csrf_token' = current_csrf_token]_vars

\* A GET / has issued the token 1; a second POST, with the right setup password
\* and the token 0, has been answered 403.
C12_EarlierTokenRejected ==
    /\ last.op = "post"
    /\ posts >= 2
    /\ current_csrf_token = <<0, 1>>
    /\ last.req.csrf = <<0, 0>>
    /\ last.req.setup_pwd = setup_password
    /\ last.req.ssid = Home
    /\ last.status = 403
    /\ last.msg = "Invalid request"

\* C13: connect() returns ESP_ERR_INVALID_STATE when the state is Connected and
\* ESP_ERR_NOT_FOUND when (not Connected and) no credentials are stored; a
\* connect() that returns either error leaves the state, the registered
\* callback, the stay-connected flag and the retry counter as they were and
\* starts nothing on the radio.
C13_ConnectErrors ==
    [][Ran("connect")
        => /\ current_state = "CONNECTED" => last'.ret = "ESP_ERR_INVALID_STATE"
           /\ (current_state # "CONNECTED" /\ ~nvs.ssid.has)
              => last'.ret = "ESP_ERR_NOT_FOUND"
           /\ last'.ret \in {"ESP_ERR_INVALID_STATE", "ESP_ERR_NOT_FOUND"}
              => /\ current_state' = current_state
                 /\ setup_callback' = setup_callback
                 /\ stay_connected_flag' = stay_connected_flag
                 /\ wifi_retry_num' = wifi_retry_num
                 /\ wifi' = wifi
                 /\ link' = link
                 /\ sta_netif' = sta_netif
                 /\ handlers' = handlers]_vars

\* connect() on an empty store has returned not-found from Idle: no callback
\* is registered and the radio is off.
C13_NotFoundFromIdle ==
    /\ last.op = "connect"
    /\ last.from = "IDLE"
    /\ last.ret = "ESP_ERR_NOT_FOUND"
    /\ nvs = NoCredentials
    /\ current_state = "IDLE"
    /\ ~setup_callback
    /\ wifi = "off"

\* C14: a start_portal() called in Idle that returns ESP_OK ends with the state
\* PortalRunning, the access point and the HTTP server running and the portal
\* timeout (PORTAL_TIMEOUT_MS, 5 minutes) armed.
C14_StartPortalFromIdle ==
    (/\ last.op = "start_portal"
     /\ last.from = "IDLE"
     /\ last.ret = "ESP_OK")
    => /\ current_state = "PORTAL_RUNNING"
       /\ ap_netif
       /\ wifi = "ap"
       /\ server
       /\ ttask = "portal"
       /\ timeout_task_handle = "task"

\* start_portal() has returned ESP_OK from Idle and the portal serves clients.
C14_PortalStarted ==
    /\ last.op = "start_portal"
    /\ last.from = "IDLE"
    /\ last.ret = "ESP_OK"
    /\ current_state = "PORTAL_RUNNING"
    /\ Serving
    /\ ttask = "portal"

\* C15: the HTTP surface is served only while PortalRunning: whenever the HTTP
\* server is running, the connection state is PortalRunning.
C15_ServedOnlyWhilePortalRunning ==
    server => current_state = "PORTAL_RUNNING"

\* The connect task has set Connecting and the server still answers clients.
C15_ServingWhileConnecting ==
    /\ last.op = "ct_begin"
    /\ last.from = "PORTAL_RUNNING"
    /\ current_state = "CONNECTING"
    /\ Serving

\* C16: disconnect() may be called in any state: when it has returned, the
\* state is Disabled, no timeout is pending, and the call has invoked the
\* registered callback with false exactly once.
C16_DisconnectFromAnyState ==
    last.op = "disconnect"
    => /\ current_state = "DISABLED"
       /\ ttask = "none"
       /\ timeout_task_handle = "null"
       /\ setup_callback => last.cb = <<FALSE>>

\* disconnect() has been called while the portal ran with its timeout armed.
C16_DisconnectDuringPortal ==
    /\ last.op = "disconnect"
    /\ last.from = "PORTAL_RUNNING"
    /\ current_state = "DISABLED"
    /\ ttask = "none"
    /\ last.cb = <<FALSE>>

\* No connect task is alive and the event handler is not inside its failure
\* handling: no operation is in progress.
Quiescent ==
    /\ ctasks.delay + ctasks.stop + ctasks.conn = 0
    /\ evtask.pc = "idle"

\* C17: whenever the state is Disabled and no operation is in progress, every
\* resource is released: no HTTP server runs, no access-point and no station
\* interface exists, the Wi-Fi driver is stopped and no timeout is pending.
C17_DisabledHoldsNothing ==
    (current_state = "DISABLED" /\ Quiescent)
    => /\ ~server
       /\ ~ap_netif
       /\ ~sta_netif
       /\ wifi = "off"
       /\ ttask = "none"
       /\ timeout_task_handle = "null"

\* disconnect() has ended a portal session: the state is Disabled, the server
\* and the access-point interface are still there.
C17_DisabledWithServer ==
    /\ last.op = "disconnect"
    /\ last.from = "PORTAL_RUNNING"
    /\ current_state = "DISABLED"
    /\ Quiescent
    /\ server
    /\ ap_netif

C19_StateAgreesWithResources ==
    Quiescent
    => /\ current_state = "PORTAL_RUNNING" <=> (server /\ ap_netif /\ wifi = "ap")
       /\ current_state \in {"IDLE", "DISABLED"} => ~server

\* The event handler's delayed cleanup has run into a portal the caller started
\* meanwhile: everything has completed, the state is Disabled and the server
\* is still there.
C19_CleanupHitsNewPortal ==
    /\ last.op = "fail_cleanup"
    /\ last.from = "PORTAL_RUNNING"
    /\ Quiescent
    /\ current_state = "DISABLED"
    /\ server
    /\ ap_netif

\* C20: with stay_connected requested, no timeout ends the connection: the
\* address-acquired event arms no grace timeout, and the firing of a timeout
\* armed earlier leaves the state Connected and the radio as it is.
C20_StayConnectedNeverTimesOut ==
    [][/\ (Ran("got_ip") /\ stay_connected_flag)
          => /\ ttask' = ttask
             /\ timeout_task_handle' = timeout_task_handle
       /\ (Ran("timeout") /\ current_state = "CONNECTED" /\ stay_connected_flag)
          => /\ current_state' = "CONNECTED"
             /\ wifi' = wifi
             /\ link' = link
             /\ sta_netif' = sta_netif
             /\ handlers' = handlers
             /\ last'.cb = <<>>]_vars

\* The portal timeout, armed before connect(cb, true), has fired on the
\* connection that is to stay: it is still up.
C20_EarlierTimeoutFiredOnStay ==
    /\ last.op = "timeout"
    /\ last.from = "CONNECTED"
    /\ stay_connected_flag
    /\ current_state = "CONNECTED"
    /\ link = "up"
    /\ ttask = "none"
    /\ timeout_task_handle = "null"

(***************************************************************************)
(* C21  Round trip through the store: an accepted submission whose fields  *)
(* fit the handler's buffers is stored as it was sent; get_credentials,    *)
(* when it can open the store, returns ESP_OK and exactly the stored ssid  *)
(* and password; and the store changes only by an accepted submission or   *)
(* by clear_credentials, so the answer stays the same until then.          *)
(***************************************************************************)
Fits(req) ==
    /\ Len(UrlEncode(req.ssid)) <= WIFI_SSID_MAX_LEN - 1
    /\ Len(UrlEncode(req.password)) <= WIFI_PASSWORD_MAX_LEN - 1

C21_RoundTrip ==
    [][/\ (Ran("post") /\ last'.status = 200 /\ Fits(last'.req))
           => nvs' = StoreOf(last'.req.ssid, last'.req.password)
       /\ (Ran("get_credentials") /\ last'.ret # "ESP_FAIL" /\ nvs.ssid.has)
           => /\ last'.ret = "ESP_OK"
              /\ last'.out = [ssid |-> nvs.ssid.val, password |-> nvs.password.val]
              /\ nvs' = nvs
       /\ nvs' # nvs
           => \/ Ran("post") /\ last'.status = 200
              \/ Ran("clear_credentials") /\ last'.ret = "ESP_OK"]_vars

\* get_credentials has returned the ssid "My &=%" and the password "My &=%",
\* which only a submission can have stored.
C21_LoadedWhatWasSubmitted ==
    /\ last.op = "get_credentials"
    /\ last.ret = "ESP_OK"
    /\ last.out = [ssid |-> MyNet, password |-> MyNet]
    /\ nvs = StoreOf(MyNet, MyNet)

C23_SleepOnlyWhenCoreIsDone ==
    [][Ran("enter_deep_sleep")
       => /\ current_state \notin {"PORTAL_RUNNING", "CONNECTING", "CONNECTED"}
          /\ ctasks = [delay |-> 0, stop |-> 0, conn |-> 0]
          /\ ttask = "none"]_vars

\* The chip has gone to sleep 5.1 s after boot with the portal running and
\* its 5-minute timeout pending.
C23_AsleepDuringPortal ==
    /\ app = "asleep"
    /\ last.op = "enter_deep_sleep"
    /\ current_state = "PORTAL_RUNNING"
    /\ server
    /\ ttask = "portal"

(***************************************************************************)
(* C24  As long as GET / has never been served, every POST /save that      *)
(* carries the correct setup password and is let in by the rate limiter is *)
(* answered 403 (stated for clients that never send GET /).                *)
(***************************************************************************)
C24_NoFormNoAcceptance ==
    [][(/\ Ran("post")
        /\ Sends(last'.req, "setup_pwd")
        /\ last'.req.setup_pwd = setup_password
        /\ last'.msg # "Too many attempts")
       => last'.status = 403]_vars

\* A POST without a csrf field has been answered 200 although no form has
\* ever been served.
C24_AcceptedBeforeAnyForm ==
    /\ last.op = "post"
    /\ last.status = 200
    /\ ~Sends(last.req, "csrf")
    /\ nvs = StoreOf(last.req.ssid, last.req.password)

(***************************************************************************)
(* C25  A POST /save that the rate limiter lets in and that lacks the ssid *)
(* field or the password field is answered 400, whatever its setup_pwd and *)
(* csrf fields hold.                                                       *)
(***************************************************************************)
C25_MissingFieldIs400 ==
    [][(/\ Ran("post")
        /\ last'.msg # "Too many attempts"
        /\ (~Sends(last'.req, "ssid") \/ ~Sends(last'.req, "password")))
       => last'.status = 400]_vars

\* A POST with the correct setup password, an outdated token and no ssid field
\* has been answered 403 "Invalid request".
C25_MissingFieldIs403 ==
    /\ last.op = "post"
    /\ Sends(last.req, "setup_pwd")
    /\ last.req.setup_pwd = setup_password
    /\ ~Sends(last.req, "ssid")
    /\ last.req.csrf # current_csrf_token
    /\ last.status = 403
    /\ last.msg = "Invalid request"

(***************************************************************************)
(* C26  When wifi_event_handler is called for the address-acquired event   *)
(* in state Connecting, the state becomes Connected, the retry counter 0,  *)
(* callback(true) is invoked once, and the 30-second timeout is armed if   *)
(* stay_connected was not requested and left alone if it was; and the      *)
(* state Connected is entered from no state other than Connecting.         *)
(***************************************************************************)
C26_ConnectedOnlyFromConnecting ==
    [][/\ (Ran("got_ip") /\ current_state = "CONNECTING")
           => /\ current_state' = "CONNECTED"
              /\ wifi_retry_num' = 0
              /\ last'.cb = <<TRUE>>
              /\ ~stay_connected_flag => ttask' = "connect"
              /\ stay_connected_flag => ttask' = ttask
       /\ (current_state' = "CONNECTED" /\ current_state # "CONNECTED")
           => current_state = "CONNECTING"]_vars

\* The handler has run for an address-acquired event in state Idle, after the
\* caller had stopped the radio, and has made the state Connected.
C26_ConnectedFromIdle ==
    /\ last.op = "got_ip"
    /\ last.from = "IDLE"
    /\ current_state = "CONNECTED"
    /\ wifi = "off"

(***************************************************************************)
(* C27  When start_portal() returns an error, the state is not             *)
(* PortalRunning, the access point is not running and no portal timeout is *)
(* armed.                                                                  *)
(***************************************************************************)
C27_FailedStartLeavesNothing ==
    [][(Ran("start_portal") /\ last'.ret # "ESP_OK")
       => /\ current_state' # "PORTAL_RUNNING"
          /\ wifi' # "ap"
          /\ ~ap_netif'
          /\ ttask' # "portal"]_vars

\* start_portal() has returned ESP_FAIL for a server that did not start, with
\* the state PortalRunning, the access point up and the portal timeout armed.
C27_FailedStartHalfRunning ==
    /\ last.op = "start_portal"
    /\ last.ret = "ESP_FAIL"
    /\ ~server
    /\ current_state = "PORTAL_RUNNING"
    /\ wifi = "ap"
    /\ ap_netif
    /\ ttask = "portal"

(***************************************************************************)
(* C28  While a connect task started by an accepted submission has not yet *)
(* stopped the portal, no POST /save is accepted and no further connect    *)
(* task is started.                                                        *)
(***************************************************************************)
C28_OneAttemptPerSession ==
    [][(Ran("post") /\ ctasks.delay + ctasks.stop > 0)
       => /\ last'.status # 200
          /\ ctasks' = ctasks]_vars

\* A second submission has been accepted during the first connect task's
\* delay, and two connect tasks are waiting to stop the portal and connect.
C28_TwoConnectTasks ==
    /\ last.op = "post"
    /\ last.status = 200
    /\ ctasks.delay = 2
    /\ server

(***************************************************************************)
(* C29  Whatever the order of the four fields in the body, a POST /save    *)
(* that the rate limiter lets in and that carries the correct setup        *)
(* password, the current token, a non-empty ssid and a password is         *)
(* answered 200 and its ssid and password are stored (storage permitting). *)
(***************************************************************************)
C29_AnyFieldOrderAccepted ==
    [][(/\ Ran("post")
        /\ \A name \in {"setup_pwd", "csrf", "ssid", "password"} :
               Sends(last'.req, name)
        /\ last'.req.setup_pwd = setup_password
        /\ last'.req.csrf = current_csrf_token
        /\ last'.req.ssid # <<>>
        /\ last'.msg \notin {"Too many attempts", "Save failed"})
       => /\ last'.status = 200
          /\ nvs' = StoreOf(last'.req.ssid, last'.req.password)]_vars

\* The body setup_pwd, csrf, password, ssid with ssid "My &=%" has been
\* answered 400 "SSID required" and nothing of it is stored.
C29_SsidLastRejected ==
    /\ last.op = "post"
    /\ last.req.order = SsidLast
    /\ last.req.ssid = MyNet
    /\ last.req.setup_pwd = setup_password
    /\ last.req.csrf = current_csrf_token
    /\ last.status = 400
    /\ last.msg = "SSID required"
    /\ nvs.ssid.val # MyNet

(***************************************************************************)
(* C30  The stored ssid is never longer than 31 bytes and the stored       *)
(* password never longer than 63 bytes, so get_credentials never fails     *)
(* with an invalid-length error; a submission that is valid but for a      *)
(* field longer than that is answered 200, not rejected, and what is       *)
(* stored of each field is what its first 31 (63) submitted bytes decode   *)
(* to: the first 31 (63) bytes of the value, if it holds no escapes.       *)
(***************************************************************************)
Clamped(v, max) ==
    LET e == UrlEncode(v)
    IN  url_decode(IF Len(e) > max THEN SubSeq(e, 1, max) ELSE e)

\* what is kept of each value sent as an ssid, and as a password
ClampedSsid ==
    [v \in {req.ssid : req \in StoreRequests} |-> Clamped(v, WIFI_SSID_MAX_LEN - 1)]

ClampedPassword ==
    [v \in {req.password : req \in StoreRequests} |->
        Clamped(v, WIFI_PASSWORD_MAX_LEN - 1)]

C30_StoredWithinMaxima ==
    [][/\ Len(nvs'.ssid.val) <= WIFI_SSID_MAX_LEN - 1
       /\ Len(nvs'.password.val) <= WIFI_PASSWORD_MAX_LEN - 1
       /\ \A open_ok \in BOOLEAN :
             wifi_setup_get_credentials(nvs', open_ok).err
                 # "ESP_ERR_NVS_INVALID_LENGTH"
       /\ Ran("get_credentials") => last'.ret # "ESP_ERR_NVS_INVALID_LENGTH"
       /\ (/\ Ran("post")
           /\ ~Fits(last'.req)
           /\ last'.req.order = FormOrder
           /\ last'.req.setup_pwd = setup_password
           /\ last'.req.csrf = current_csrf_token
           /\ last'.msg \notin {"Too many attempts", "Save failed"})
          => /\ last'.status = 200
             /\ nvs' = StoreOf(ClampedSsid[last'.req.ssid],
                               ClampedPassword[last'.req.password])
             /\ last'.req.ssid = LongSsid
                => nvs'.ssid.val = SubSeq(LongSsid, 1, WIFI_SSID_MAX_LEN - 1)
             /\ last'.req.password = LongPassword
                => nvs'.password.val
                   = SubSeq(LongPassword, 1, WIFI_PASSWORD_MAX_LEN - 1)]_vars

\* get_credentials has returned the first 31 bytes of a 40-byte ssid and the
\* first 63 bytes of a 70-byte password, which a submission had stored.
C30_TruncatedAndLoaded ==
    /\ last.op = "get_credentials"
    /\ last.ret = "ESP_OK"
    /\ last.out.ssid = SubSeq(LongSsid, 1, WIFI_SSID_MAX_LEN - 1)
    /\ last.out.password = SubSeq(LongPassword, 1, WIFI_PASSWORD_MAX_LEN - 1)
    /\ Len(nvs.ssid.val) = WIFI_SSID_MAX_LEN - 1
    /\ Len(nvs.password.val) = WIFI_PASSWORD_MAX_LEN - 1

(***************************************************************************)
(* C31  stop_portal() may be called in any state: when it returns the HTTP *)
(* server is stopped, the access-point interface is destroyed, no timeout  *)
(* is pending and the stored credentials are as before; a second call      *)
(* right after the first changes nothing; and a call made while no portal  *)
(* is running and the state is Connecting or Connected leaves the state    *)
(* and the station's connection as they were.                              *)
(***************************************************************************)
C31_StopPortalAnywhere ==
    [][Ran("stop_portal")
       => /\ ~server'
          /\ ~ap_netif'
          /\ ttask' = "none"
          /\ timeout_task_handle' = "null"
          /\ nvs' = nvs
          /\ last.op = "stop_portal"
             => UNCHANGED <<lifecycle, http, nvs, ctasks, evtask>>
          /\ (~server /\ current_state \in {"CONNECTING", "CONNECTED"})
             => /\ current_state' = current_state
                /\ wifi' = wifi
                /\ link' = link]_vars

\* stop_portal(), called in state Connected with no portal running, has
\* stopped the radio under the connection and made the state Idle.
C31_ConnectionStoppedByStopPortal ==
    /\ last.op = "stop_portal"
    /\ last.from = "CONNECTED"
    /\ current_state = "IDLE"
    /\ wifi = "off"
    /\ link = "none"
    /\ sta_netif
    /\ ~server

====
